---------------------------- MODULE Spec2Model ----------------------------
(***************************************************************************)
(* LiteGRPC client transport: LiteGrpcChannel (channel.cpp) on top of      *)
(* Http2Client (http2_client.cpp), which drives an nghttp2 session over a  *)
(* blocking socket.                                                        *)
(*                                                                         *)
(* Strings whose characters matter (targets, header values parsed by       *)
(* std::stoi) are tuples of one-character strings; byte strings are        *)
(* tuples of numbers 0..255.                                               *)
(***************************************************************************)
EXTENDS Integers, Sequences, FiniteSets, TLC

VARIABLES
    target_,        \* LiteGrpcChannel::target_
    credentials_,   \* credentials_->IsSecure()
    connected_,     \* LiteGrpcChannel::connected_
    connection_,    \* LiteGrpcChannel::Http2Connection: host, port, use_ssl
    state_,         \* Http2Client::ConnectionState
    ng,             \* the nghttp2 session object state_.session points to
    link,           \* the TCP connection behind state_.socket_fd: "none", "up", "down"
    allocs,         \* number of Http2Client::Connect attempts that allocated handles
    pc,             \* "idle" between public operations, "loop" inside ProcessEvents
    frame,          \* locals of the ExecuteRequest / SendRequest in progress
    response_data,  \* the caller's *response_data
    call,           \* the public operation in progress or last returned, and its result
    client_context, \* a ClientContext: metadata_, deadline_, has_deadline_, ...
    nanopb,         \* a NanopbBytes: data, size, capacity
    channel_args,   \* a ChannelArguments: int_args_, string_args_, pointer_args_
    stub_channel_,  \* StubInterface::channel_: whether a channel is bound
    dev,            \* the device client LinxOSRPCClientImpl, its heartbeat thread
                    \* and whether its server can be reached
    nanopb_str,     \* a NanopbString and a NanopbStringArray
    g_log_ctx       \* the logger: g_log_context, g_log_mutex and the calling threads

\* the objects beside the channel and its transport
core == <<client_context, nanopb, channel_args, stub_channel_, dev,
                   nanopb_str, g_log_ctx>>

vars == <<target_, credentials_, connected_, connection_, state_, ng, link,
          allocs, pc, frame, response_data, call,
          client_context, nanopb, channel_args, stub_channel_, dev,
                   nanopb_str, g_log_ctx>>

----------------------------------------------------------------------------
(* Bounds of the model *)

\* Http2Client::Connect attempts that get past the already-connected check
MaxConnects == 2
\* requests submitted to one nghttp2 session
MaxStreams == 1
\* length of a request payload
MaxPayload == 1

----------------------------------------------------------------------------
(* StatusCode (status.h) and Status values *)

OK == 0
INVALID_ARGUMENT == 3
DEADLINE_EXCEEDED == 4
NOT_FOUND == 5
INTERNAL == 13
UNAVAILABLE == 14
CANCELLED == 1
UNKNOWN == 2
ALREADY_EXISTS == 6
PERMISSION_DENIED == 7
RESOURCE_EXHAUSTED == 8
FAILED_PRECONDITION == 9
ABORTED == 10
OUT_OF_RANGE == 11
UNIMPLEMENTED == 12
DATA_LOSS == 15
UNAUTHENTICATED == 16
\* not a StatusCode: the operation left by a C++ exception instead of returning
THROWN == -1

Status(code, message) == [code |-> code, message |-> message]
StatusOK == Status(OK, "")
Thrown(what) == Status(THROWN, what)
ok(st) == st.code = OK

----------------------------------------------------------------------------
(* Characters and std::stoi *)

Digits == {"0", "1", "2", "3", "4", "5", "6", "7", "8", "9"}

DigitVal(c) ==
    CASE c = "0" -> 0 [] c = "1" -> 1 [] c = "2" -> 2 [] c = "3" -> 3
      [] c = "4" -> 4 [] c = "5" -> 5 [] c = "6" -> 6 [] c = "7" -> 7
      [] c = "8" -> 8 [] c = "9" -> 9

INT_MAX == 2147483647

\* length of the longest prefix of s made of characters of set cs
RECURSIVE PrefixLen(_, _)
PrefixLen(s, cs) ==
    IF s = <<>> \/ Head(s) \notin cs THEN 0 ELSE 1 + PrefixLen(Tail(s), cs)

\* the value of a run of digits, or -1 when it exceeds INT_MAX
RECURSIVE DecimalValue(_, _)
DecimalValue(s, acc) ==
    IF s = <<>> THEN acc
    ELSE IF acc > (INT_MAX - DigitVal(Head(s))) \div 10 THEN -1
    ELSE DecimalValue(Tail(s), 10 * acc + DigitVal(Head(s)))

\* the digits of -INT_MIN, which is one more than INT_MAX
IntMinDigits == <<"2", "1", "4", "7", "4", "8", "3", "6", "4", "8">>

\* std::stoi(s): skips leading white space, reads an optional sign and the
\* longest run of digits; throws std::invalid_argument when there is no digit
\* and std::out_of_range when the value does not fit an int.
stoi(s) ==
    LET ws     == PrefixLen(s, {" "})
        r1     == SubSeq(s, ws + 1, Len(s))
        neg    == r1 # <<>> /\ Head(r1) = "-"
        signed == r1 # <<>> /\ Head(r1) \in {"-", "+"}
        r2     == IF signed THEN Tail(r1) ELSE r1
        nd     == PrefixLen(r2, Digits)
        ds     == SubSeq(r2, 1, nd)
        mag    == DecimalValue(ds, 0)
        isMin  == neg /\ SubSeq(ds, PrefixLen(ds, {"0"}) + 1, nd) = IntMinDigits
    IN  IF nd = 0 THEN [thrown |-> TRUE, what |-> "std::invalid_argument", value |-> 0]
        ELSE IF isMin THEN [thrown |-> FALSE, what |-> "", value |-> (0 - INT_MAX) - 1]
        ELSE IF mag = -1
             THEN [thrown |-> TRUE, what |-> "std::out_of_range", value |-> 0]
        ELSE [thrown |-> FALSE, what |-> "", value |-> IF neg THEN 0 - mag ELSE mag]

----------------------------------------------------------------------------
(* LiteGrpcChannel::ParseTarget *)

\* index of the first ':' of s, or Len(s) + 1 when there is none
FirstColon(s) == PrefixLen(s, {c \in {s[i] : i \in 1..Len(s)} : c # ":"}) + 1

\* the match of  ([^:]+)(?::(\d+))?$  against r: host and port text
MatchHostPort(r) ==
    LET k    == FirstColon(r)
        host == SubSeq(r, 1, k - 1)
        rest == SubSeq(r, k + 1, Len(r))
    IN  IF host = <<>> THEN [matched |-> FALSE, host |-> <<>>, port |-> <<>>]
        ELSE IF k > Len(r) THEN [matched |-> TRUE, host |-> host, port |-> <<>>]
        ELSE IF rest # <<>> /\ PrefixLen(rest, Digits) = Len(rest)
             THEN [matched |-> TRUE, host |-> host, port |-> rest]
        ELSE [matched |-> FALSE, host |-> <<>>, port |-> <<>>]

\* std::regex_match(target, R"(^(?:([^:]+)://)?([^:]+)(?::(\d+))?$)"):
\* the optional scheme group is tried first, then the match without it
RegexMatch(t) ==
    LET k       == FirstColon(t)
        scheme  == SubSeq(t, 1, k - 1)
        hasSep  == /\ scheme # <<>>
                   /\ k + 2 <= Len(t)
                   /\ SubSeq(t, k, k + 2) = <<":", "/", "/">>
        withS   == MatchHostPort(SubSeq(t, k + 3, Len(t)))
        without == MatchHostPort(t)
    IN  IF hasSep /\ withS.matched
        THEN [matched |-> TRUE, scheme |-> scheme, host |-> withS.host, port |-> withS.port]
        ELSE [matched |-> without.matched, scheme |-> <<>>,
              host |-> without.host, port |-> without.port]

\* the secure scheme misspelt
SchemeHttps_Misspelt == <<"h", "t", "t", "p", "s", "s">>
SchemeHttp == <<"h", "t", "t", "p">>
SchemeHttps == <<"h", "t", "t", "p", "s">>
DefaultPortPlain == 80
DefaultPortSsl == 443

ParseTarget(t, secure) ==
    LET bad == [st |-> StatusOK, host |-> <<>>, port |-> 0, use_ssl |-> FALSE]
        Ported(m, ssl, p) ==
            IF p.thrown
            THEN [bad EXCEPT !.st = Thrown(p.what)]
            ELSE [st |-> StatusOK, host |-> m.host, port |-> p.value, use_ssl |-> ssl]
        Schemed(m, ssl) ==
            IF m.port = <<>>
            THEN [st |-> StatusOK, host |-> m.host,
                  port |-> IF ssl THEN DefaultPortSsl ELSE DefaultPortPlain,
                  use_ssl |-> ssl]
            ELSE Ported(m, ssl, stoi(m.port))
        Matched(m) ==
            IF ~m.matched
            THEN [bad EXCEPT !.st = Status(INVALID_ARGUMENT, "Invalid target format")]
            ELSE IF m.scheme \notin {<<>>, SchemeHttp, SchemeHttps}
            THEN [bad EXCEPT !.st = Status(INVALID_ARGUMENT, "Unsupported scheme")]
            ELSE Schemed(m, IF m.scheme = <<>> THEN secure ELSE m.scheme = SchemeHttps)
    IN  Matched(RegexMatch(t))

----------------------------------------------------------------------------
(* The nghttp2 session behind state_.session, as far as Http2Client uses it *)

\* a session as nghttp2_session_client_new returns it
NewSession ==
    [ outq           |-> <<>>,   \* frames submitted and not yet sent
      settings_sent  |-> FALSE,  \* the client preface and SETTINGS went out
      term_sent      |-> FALSE,  \* NGHTTP2_GOAWAY_TERM_SENT
      goaway_recv    |-> FALSE,  \* NGHTTP2_GOAWAY_RECV
      phase          |-> <<>>,   \* per request, in order of stream id: "idle"
                                 \* (not sent), "open", "headers" (response
                                 \* begun), "ended" (the peer's END_STREAM),
                                 \* "reset" (closed any other way)
      next_stream_id |-> 1 ]

\* nghttp2 numbers the client's streams 1, 3, 5, ...: the k-th request
StreamIndex(stream_id) == (stream_id + 1) \div 2

ActiveStreams(n) ==
    {2 * k - 1 : k \in {i \in 1..Len(n.phase) : n.phase[i] \in {"open", "headers"}}}

\* nghttp2_session_want_read: 0 once the terminating GOAWAY was sent, 1 while
\* a stream is active, and otherwise 1 unless a GOAWAY was sent or received
nghttp2_session_want_read(n) ==
    IF n.term_sent THEN FALSE
    ELSE IF ActiveStreams(n) # {} THEN TRUE
    ELSE ~n.goaway_recv

\* nghttp2_session_want_write: frames are waiting to be sent
nghttp2_session_want_write(n) == n.outq # <<>>

\* nghttp2_session_terminate_session: queues the terminating GOAWAY once
nghttp2_session_terminate_session(n) ==
    IF n.term_sent \/ \E i \in 1..Len(n.outq) : n.outq[i].type = "GOAWAY"
    THEN n
    ELSE [n EXCEPT !.outq = Append(@, [type |-> "GOAWAY"])]

\* what sending one queued frame does to the session
FrameSent(n, f) ==
    CASE f.type = "SETTINGS" -> [n EXCEPT !.settings_sent = TRUE]
      [] f.type = "GOAWAY"   -> [n EXCEPT !.term_sent = TRUE]
      [] f.type = "HEADERS"  ->
            \* a request is refused once a GOAWAY was received or sent
            IF n.goaway_recv \/ n.term_sent
            THEN [n EXCEPT !.phase[StreamIndex(f.stream_id)] = "reset"]
            ELSE [n EXCEPT !.phase[StreamIndex(f.stream_id)] = "open"]
      [] OTHER -> n

RECURSIVE SendAll(_, _)
SendAll(n, q) ==
    IF q = <<>> THEN n ELSE SendAll(FrameSent(n, Head(q)), Tail(q))

\* nghttp2_session_send with a send callback that succeeds
nghttp2_session_send(n) == [SendAll(n, n.outq) EXCEPT !.outq = <<>>]

----------------------------------------------------------------------------
(* The request body's data provider, Http2Client::SendRequest's read_callback *)

\* strlen: the number of bytes before the first 0 byte
strlen(data) == PrefixLen(data, {b \in {data[i] : i \in 1..Len(data)} : b # 0})

TEMPORAL_CALLBACK_FAILURE == -521
\* the size of the buffer nghttp2 offers the callback
NGHTTP2_DATA_PAYLOADLEN == 16384

read_callback(source, length) ==
    LET data_len == strlen(source)
    IN  IF data_len > length
        THEN [rv |-> TEMPORAL_CALLBACK_FAILURE, buf |-> <<>>, eof |-> FALSE]
        ELSE [rv |-> data_len, buf |-> SubSeq(source, 1, data_len), eof |-> TRUE]

----------------------------------------------------------------------------
(* gRPC message framing, LiteGrpcChannel::ExecuteRequest *)

\* htonl that leaves the bytes in the order of a little-endian host
htonl_HostOrder(x) ==
    << x % 256, (x \div 256) % 256, (x \div 65536) % 256, (x \div 16777216) % 256 >>

\* htonl: the four bytes of a uint32_t, most significant first
htonl(x) ==
    << (x \div 16777216) % 256, (x \div 65536) % 256, (x \div 256) % 256, x % 256 >>

GrpcMessage(request_data) == <<0>> \o htonl(Len(request_data)) \o request_data

----------------------------------------------------------------------------
(* Http2Client: state, callbacks and private steps.  A step takes and      *)
(* returns the transport m = [s: ConnectionState, n: session, l: link]     *)

EmptyMap == <<>>
MapPut(m, k, v) == [x \in (DOMAIN m) \cup {k} |-> IF x = k THEN v ELSE m[x]]
MapErase(m, k) == [x \in (DOMAIN m) \ {k} |-> m[x]]
\* std::map::operator[]: the entry, default-constructed when absent
MapAt(m, k, default) == IF k \in DOMAIN m THEN m[k] ELSE default

Http2Response == [status_code |-> 0, headers |-> EmptyMap, body |-> <<>>]

ConnectionState ==
    [ session           |-> 0,      \* 0 is nullptr, otherwise the handle
      socket_fd         |-> -1,
      ssl_ctx           |-> 0,
      ssl               |-> 0,
      use_ssl           |-> FALSE,
      connected         |-> FALSE,
      responses         |-> EmptyMap,
      current_stream_id |-> -1 ]

Ret(st, m) == [st |-> st, m |-> m]

\* OnDataChunkRecvCallback that appends to the response of the request in hand
OnDataChunkRecvCallback_Current(s, stream_id, data) ==
    LET r == MapAt(s.responses, s.current_stream_id, Http2Response)
    IN  [s EXCEPT !.responses =
            MapPut(@, s.current_stream_id, [r EXCEPT !.body = @ \o data])]

OnHeaderCallback(s, stream_id, name, value) ==
    LET r == MapAt(s.responses, stream_id, Http2Response)
    IN  IF name = ":status"
        THEN [s EXCEPT !.responses =
                 MapPut(@, stream_id, [r EXCEPT !.status_code = stoi(value).value])]
        ELSE [s EXCEPT !.responses =
                 MapPut(@, stream_id, [r EXCEPT !.headers = MapPut(@, name, value)])]

OnDataChunkRecvCallback(s, stream_id, data) ==
    LET r == MapAt(s.responses, stream_id, Http2Response)
    IN  [s EXCEPT !.responses = MapPut(@, stream_id, [r EXCEPT !.body = @ \o data])]

\* the order in which nghttp2 reports the fields of one HEADERS frame
FieldOrder == <<":status", "grpc-status", "grpc-message">>

RECURSIVE HeaderCallbacks(_, _, _, _)
HeaderCallbacks(s, stream_id, fields, i) ==
    IF i > Len(FieldOrder) THEN s
    ELSE IF FieldOrder[i] \in DOMAIN fields
         THEN HeaderCallbacks(
                  OnHeaderCallback(s, stream_id, FieldOrder[i], fields[FieldOrder[i]]),
                  stream_id, fields, i + 1)
         ELSE HeaderCallbacks(s, stream_id, fields, i + 1)

\* nghttp2_session_mem_recv on the bytes of one read, which hold frame f
\* (or complete none): the callbacks it runs and what it does to the session
nghttp2_session_mem_recv(m, f) ==
    LET k == IF "stream_id" \in DOMAIN f THEN StreamIndex(f.stream_id) ELSE 0
        closing == IF f.type = "RST_STREAM" THEN "reset"
                   ELSE IF f.end_stream THEN "ended" ELSE "headers"
    IN  CASE f.type \in {"HEADERS", "TRAILERS"} ->
                [m EXCEPT !.s = HeaderCallbacks(@, f.stream_id, f.fields, 1),
                          !.n.phase[k] = closing]
          [] f.type = "DATA" ->
                [m EXCEPT !.s = OnDataChunkRecvCallback(@, f.stream_id, f.data),
                          !.n.phase[k] = closing]
          [] f.type = "RST_STREAM" -> [m EXCEPT !.n.phase[k] = closing]
          [] f.type = "GOAWAY" ->
                \* streams above last_stream_id are closed unprocessed
                [m EXCEPT !.n.goaway_recv = TRUE,
                          !.n.phase = [i \in DOMAIN @ |->
                              IF @[i] \in {"open", "headers"} /\ 2 * i - 1 > f.last_stream_id
                              THEN "reset" ELSE @[i]]]
          [] f.type = "SETTINGS" ->
                [m EXCEPT !.n.outq = Append(@, [type |-> "SETTINGS_ACK"])]
          [] f.type = "PROTOCOL_ERROR" ->
                \* a connection error: nghttp2 terminates the session itself
                [m EXCEPT !.n = nghttp2_session_terminate_session(@)]
          [] OTHER -> m

\* SocketSend cannot succeed without a socket
CanSend(m) == m.s.socket_fd >= 0

SendData(m, sendOk) ==
    IF m.n.outq = <<>> THEN Ret(StatusOK, m)
    ELSE IF sendOk /\ CanSend(m)
    THEN Ret(StatusOK, [m EXCEPT !.n = nghttp2_session_send(@)])
    ELSE Ret(Status(INTERNAL, "Failed to send data"), [m EXCEPT !.l = "down"])

\* ReceiveData that takes the end of the connection for an empty read
ReceiveData_IgnoreClosed(m, rd) ==
    CASE rd.type = "ERROR"  -> Ret(Status(INTERNAL, "Failed to receive data"),
                                   [m EXCEPT !.l = "down"])
      [] rd.type = "CLOSED" -> Ret(StatusOK, [m EXCEPT !.l = "down"])
      [] rd.type = "FATAL"  -> Ret(Status(INTERNAL, "Failed to process received data"), m)
      [] OTHER              -> Ret(StatusOK, nghttp2_session_mem_recv(m, rd))

\* rd is what the blocking read brings: a failure of recv ("ERROR"), the end
\* of the connection ("CLOSED"), bytes nghttp2_session_mem_recv fails on
\* ("FATAL"), or a frame
ReceiveData(m, rd) ==
    CASE rd.type = "ERROR"  -> Ret(Status(INTERNAL, "Failed to receive data"),
                                   [m EXCEPT !.l = "down"])
      [] rd.type = "CLOSED" -> Ret(Status(UNAVAILABLE, "Connection closed"),
                                   [m EXCEPT !.l = "down"])
      [] rd.type = "FATAL"  -> Ret(Status(INTERNAL, "Failed to process received data"), m)
      [] OTHER              -> Ret(StatusOK, nghttp2_session_mem_recv(m, rd))

\* CreateSocket that reports a name that does not resolve as NOT_FOUND
CreateSocket_NotFound(m, id, o) ==
    CASE o = "resolve_fail" -> Ret(Status(NOT_FOUND, "Failed to resolve host"), m)
      [] o = "socket_fail"  -> Ret(Status(UNAVAILABLE, "Failed to create socket"),
                                   [m EXCEPT !.s.socket_fd = -1, !.l = "none"])
      [] o = "connect_fail" -> Ret(Status(UNAVAILABLE, "Failed to connect"),
                                   [m EXCEPT !.s.socket_fd = id, !.l = "down"])
      [] OTHER              -> Ret(StatusOK, [m EXCEPT !.s.socket_fd = id, !.l = "up"])

CreateSocket(m, id, o) ==
    CASE o = "resolve_fail" -> Ret(Status(UNAVAILABLE, "Failed to resolve host"), m)
      [] o = "socket_fail"  -> Ret(Status(UNAVAILABLE, "Failed to create socket"),
                                   [m EXCEPT !.s.socket_fd = -1, !.l = "none"])
      [] o = "connect_fail" -> Ret(Status(UNAVAILABLE, "Failed to connect"),
                                   [m EXCEPT !.s.socket_fd = id, !.l = "down"])
      [] OTHER              -> Ret(StatusOK, [m EXCEPT !.s.socket_fd = id, !.l = "up"])

SetupSsl(m, id, o) ==
    CASE o = "ssl_ctx_fail" -> Ret(Status(INTERNAL, "Failed to create SSL context"),
                                   [m EXCEPT !.s.ssl_ctx = 0])
      [] o = "ssl_new_fail" -> Ret(Status(INTERNAL, "Failed to create SSL object"),
                                   [m EXCEPT !.s.ssl_ctx = id, !.s.ssl = 0])
      [] o = "ssl_handshake_fail" ->
                               Ret(Status(INTERNAL, "SSL handshake failed"),
                                   [m EXCEPT !.s.ssl_ctx = id, !.s.ssl = id, !.l = "down"])
      [] OTHER              -> Ret(StatusOK, [m EXCEPT !.s.ssl_ctx = id, !.s.ssl = id])

InitializeSession(m, id, o) ==
    IF o = "session_fail"
    THEN Ret(Status(INTERNAL, "Failed to create HTTP/2 session"), m)
    ELSE Ret(StatusOK, [m EXCEPT !.s.session = id, !.n = NewSession])

PerformHandshake(m, o) ==
    IF o = "settings_fail"
    THEN Ret(Status(INTERNAL, "Failed to submit settings"), m)
    ELSE SendData([m EXCEPT !.n.outq = Append(@, [type |-> "SETTINGS"])],
                  o # "send_fail")

\* what the environment can make of one connection attempt
ConnectOutcomes(resolvable, use_ssl) ==
    IF ~resolvable THEN {"resolve_fail"}
    ELSE {"resolve_fail", "socket_fail", "connect_fail", "session_fail",
          "settings_fail", "send_fail", "ok"}
         \cup (IF use_ssl THEN {"ssl_ctx_fail", "ssl_new_fail", "ssl_handshake_fail"}
               ELSE {})

Http2Client_Connect(m, id, use_ssl, o) ==
    IF m.s.connected THEN Ret(StatusOK, m)
    ELSE
    LET m0 == [m EXCEPT !.s.use_ssl = use_ssl]
        r1 == CreateSocket(m0, id, o)
        r2 == IF use_ssl THEN SetupSsl(r1.m, id, o) ELSE r1
        r3 == InitializeSession(r2.m, id, o)
        r4 == PerformHandshake(r3.m, o)
    IN  IF ~ok(r1.st) THEN r1
        ELSE IF ~ok(r2.st) THEN r2
        ELSE IF ~ok(r3.st) THEN r3
        ELSE IF ~ok(r4.st) THEN r4
        ELSE Ret(StatusOK, [r4.m EXCEPT !.s.connected = TRUE])

Http2Client_Disconnect(m, sendOk) ==
    LET m1 == IF m.s.session # 0
              THEN SendData([m EXCEPT !.n = nghttp2_session_terminate_session(@)],
                            sendOk).m
              ELSE m
    IN  [m1 EXCEPT !.s.connected = FALSE]

Http2Client_IsConnected(m) == m.s.connected

----------------------------------------------------------------------------
(* Http2Client::SendRequest and ProcessEvents *)

max_iterations == 100

DigitChar(d) ==
    CASE d = 0 -> "0" [] d = 1 -> "1" [] d = 2 -> "2" [] d = 3 -> "3" [] d = 4 -> "4"
      [] d = 5 -> "5" [] d = 6 -> "6" [] d = 7 -> "7" [] d = 8 -> "8" [] d = 9 -> "9"

\* std::to_string of a non-negative int, as a string and as characters
RECURSIVE to_string(_)
to_string(x) == IF x < 10 THEN DigitChar(x) ELSE to_string(x \div 10) \o DigitChar(x % 10)
RECURSIVE to_chars(_)
to_chars(x) == IF x < 10 THEN <<DigitChar(x)>> ELSE Append(to_chars(x \div 10), DigitChar(x % 10))

\* Status::ToString that writes the message part whether or not it is empty
Status_ToString_AlwaysMessage(st) ==
    IF ok(st) THEN "OK"
    ELSE "Status(" \o to_string(st.code) \o ", \"" \o st.message \o "\"" \o ")"

Status_ToString(st) ==
    IF ok(st) THEN "OK"
    ELSE "Status("
         \o (CASE st.code = CANCELLED -> "CANCELLED"
               [] st.code = UNKNOWN -> "UNKNOWN"
               [] st.code = INVALID_ARGUMENT -> "INVALID_ARGUMENT"
               [] st.code = DEADLINE_EXCEEDED -> "DEADLINE_EXCEEDED"
               [] st.code = NOT_FOUND -> "NOT_FOUND"
               [] st.code = ALREADY_EXISTS -> "ALREADY_EXISTS"
               [] st.code = PERMISSION_DENIED -> "PERMISSION_DENIED"
               [] st.code = RESOURCE_EXHAUSTED -> "RESOURCE_EXHAUSTED"
               [] st.code = FAILED_PRECONDITION -> "FAILED_PRECONDITION"
               [] st.code = ABORTED -> "ABORTED"
               [] st.code = OUT_OF_RANGE -> "OUT_OF_RANGE"
               [] st.code = UNIMPLEMENTED -> "UNIMPLEMENTED"
               [] st.code = INTERNAL -> "INTERNAL"
               [] st.code = UNAVAILABLE -> "UNAVAILABLE"
               [] st.code = DATA_LOSS -> "DATA_LOSS"
               [] st.code = UNAUTHENTICATED -> "UNAUTHENTICATED"
               [] OTHER -> "UNKNOWN_CODE(" \o to_string(st.code) \o ")")
         \o (IF st.message # "" THEN ", \"" \o st.message \o "\"" ELSE "")
         \o ")"

\* std::map iterates its keys in lexicographic order: the header names in use
HeaderNameOrder ==
    <<":authority", "X-Trace", "content-type", "te", "user-agent", "x-trace">>

RECURSIVE MapEntries(_, _)
MapEntries(headers, i) ==
    IF i > Len(HeaderNameOrder) THEN <<>>
    ELSE (IF HeaderNameOrder[i] \in DOMAIN headers
          THEN << <<HeaderNameOrder[i], headers[HeaderNameOrder[i]]>> >>
          ELSE <<>>) \o MapEntries(headers, i + 1)

\* the name/value array handed to nghttp2_submit_request
BuildNva(s, method, path, headers) ==
    << <<":method", method>>,
       <<":path", path>>,
       <<":scheme", IF s.use_ssl THEN "https" ELSE "http">>,
       <<":authority", MapAt(headers, ":authority", <<"l","o","c","a","l","h","o","s","t">>)>> >>
    \o MapEntries(headers, 1)

\* SendRequest up to its call of ProcessEvents.  sub is what nghttp2 makes of
\* the two submissions: "submit_fail", or the request is queued and the DATA
\* item is "data_queued" or "data_refused" (the result of nghttp2_submit_data
\* is not looked at)
SendRequest_Submit(m, method, path, headers, body, sub) ==
    IF ~m.s.connected THEN Ret(Status(UNAVAILABLE, "Not connected"), m)
    ELSE IF sub = "submit_fail" THEN Ret(Status(INTERNAL, "Failed to submit request"), m)
    ELSE
    LET stream_id == m.n.next_stream_id
        hd  == [type |-> "HEADERS", stream_id |-> stream_id,
                nva |-> BuildNva(m.s, method, path, headers)]
        dt  == [type |-> "DATA", stream_id |-> stream_id, source |-> body]
        q   == IF body # <<>> /\ sub = "data_queued" THEN <<hd, dt>> ELSE <<hd>>
    IN  Ret(StatusOK,
            [m EXCEPT !.n.next_stream_id = @ + 2,
                      !.n.phase = Append(@, "idle"),
                      !.n.outq = @ \o q,
                      !.s.current_stream_id = stream_id,
                      !.s.responses = MapPut(@, stream_id, Http2Response)])

\* SendRequest after ProcessEvents returned st
SendRequest_Finish(st, m, stream_id) ==
    IF ~ok(st) THEN [st |-> st, m |-> m, response |-> Http2Response]
    ELSE IF stream_id \in DOMAIN m.s.responses
    THEN [st |-> StatusOK,
          m |-> [m EXCEPT !.s.responses = MapErase(@, stream_id)],
          response |-> m.s.responses[stream_id]]
    ELSE [st |-> Status(INTERNAL, "Response not found"), m |-> m,
          response |-> Http2Response]

\* ProcessEvents after the loop ended with iteration_count
ProcessEvents_AfterLoop(iteration_count) ==
    IF iteration_count >= max_iterations
    THEN Status(INTERNAL, "ProcessEvents exceeded maximum iterations")
    ELSE StatusOK

----------------------------------------------------------------------------
(* ClientContext and LiteGrpcChannel *)

NullContext ==
    [ null |-> TRUE, has_deadline_ |-> FALSE, deadline_ |-> 0, authority_ |-> <<>>,
      user_agent_prefix_ |-> "", metadata_ |-> EmptyMap ]
DefaultContext == [NullContext EXCEPT !.null = FALSE]

\* IsExpired with the comparison the wrong way round
IsExpired_Inverted(ctx, now) == IF ~ctx.has_deadline_ THEN FALSE ELSE now < ctx.deadline_

IsExpired(ctx, now) == IF ~ctx.has_deadline_ THEN FALSE ELSE now > ctx.deadline_

ClientContext_AddMetadata(c, key, value) ==
    [c EXCEPT !.metadata_ = MapPut(@, key, value)]

ClientContext_set_deadline(c, deadline) ==
    [c EXCEPT !.deadline_ = deadline, !.has_deadline_ = TRUE]

\* time points count ticks of MsPerTick milliseconds, so that a duration in
\* milliseconds beyond the range of int can be told by its ticks
MsPerTick == 65536
\* static_cast<int> of the millisecond count of a duration of so many ticks:
\* the low 32 bits, as a signed number
static_cast_int(ticks) ==
    LET h == ticks % 65536
    IN  (IF h >= 32768 THEN h - 65536 ELSE h) * MsPerTick

GetTimeoutMs(c, now) ==
    IF ~c.has_deadline_ THEN -1
    ELSE IF c.deadline_ <= now THEN 0
    ELSE static_cast_int(c.deadline_ - now)

DEFAULT_USER_AGENT == "LiteGRPC/1.0"

RECURSIVE CopyMetadata(_, _, _)
CopyMetadata(headers, metadata, i) ==
    IF i > Len(HeaderNameOrder) THEN headers
    ELSE CopyMetadata(
             IF HeaderNameOrder[i] \in DOMAIN metadata
             THEN MapPut(headers, HeaderNameOrder[i], metadata[HeaderNameOrder[i]])
             ELSE headers,
             metadata, i + 1)

RequestHeaders(ctx, conn) ==
    LET h0 == MapPut(MapPut(MapPut(MapPut(EmptyMap,
                  "content-type", "application/grpc+proto"),
                  "te", "trailers"),
                  "user-agent", DEFAULT_USER_AGENT),
                  ":authority", conn.host \o <<":">> \o to_chars(conn.port))
        h1 == CopyMetadata(h0, ctx.metadata_, 1)
        h2 == IF ctx.authority_ # <<>> THEN MapPut(h1, ":authority", ctx.authority_) ELSE h1
        h3 == IF ctx.user_agent_prefix_ # ""
              THEN MapPut(h2, "user-agent",
                          ctx.user_agent_prefix_ \o " " \o DEFAULT_USER_AGENT)
              ELSE h2
    IN  IF ctx.null THEN h0 ELSE h3

\* ExecuteRequest_Finish that takes the prefix for four bytes
ExecuteRequest_Finish_Prefix4(st, response, out) ==
    IF ~ok(st) THEN [st |-> st, out |-> out]
    ELSE IF response.status_code # 200
    THEN [st |-> Status(INTERNAL, "HTTP error: " \o to_string(response.status_code)),
          out |-> out]
    ELSE IF Len(response.body) < 4
    THEN [st |-> Status(INTERNAL, "Invalid gRPC response format"), out |-> out]
    ELSE
    LET data == SubSeq(response.body, 5, Len(response.body))
        g    == stoi(response.headers["grpc-status"])
    IN  IF "grpc-status" \notin DOMAIN response.headers
        THEN [st |-> StatusOK, out |-> data]
        ELSE IF g.thrown THEN [st |-> Thrown(g.what), out |-> data]
        ELSE IF g.value # 0
        THEN [st |-> Status(g.value,
                            MapAt(response.headers, "grpc-message", "Unknown gRPC error")),
              out |-> data]
        ELSE [st |-> StatusOK, out |-> data]

\* ExecuteRequest_Finish that looks at the body before the HTTP status
ExecuteRequest_Finish_BodyFirst(st, response, out) ==
    IF ~ok(st) THEN [st |-> st, out |-> out]
    ELSE IF Len(response.body) < 5
    THEN [st |-> Status(INTERNAL, "Invalid gRPC response format"), out |-> out]
    ELSE IF response.status_code # 200
    THEN [st |-> Status(INTERNAL, "HTTP error: " \o to_string(response.status_code)),
          out |-> out]
    ELSE
    LET data == SubSeq(response.body, 6, Len(response.body))
        g    == stoi(response.headers["grpc-status"])
    IN  IF "grpc-status" \notin DOMAIN response.headers
        THEN [st |-> StatusOK, out |-> data]
        ELSE IF g.thrown THEN [st |-> Thrown(g.what), out |-> data]
        ELSE IF g.value # 0
        THEN [st |-> Status(g.value,
                            MapAt(response.headers, "grpc-message", "Unknown gRPC error")),
              out |-> data]
        ELSE [st |-> StatusOK, out |-> data]

\* ExecuteRequest after SendRequest returned: the HTTP status, the frame
\* header and the grpc-status trailer
ExecuteRequest_Finish(st, response, out) ==
    IF ~ok(st) THEN [st |-> st, out |-> out]
    ELSE IF response.status_code # 200
    THEN [st |-> Status(INTERNAL, "HTTP error: " \o to_string(response.status_code)),
          out |-> out]
    ELSE IF Len(response.body) < 5
    THEN [st |-> Status(INTERNAL, "Invalid gRPC response format"), out |-> out]
    ELSE
    LET data == SubSeq(response.body, 6, Len(response.body))
        g    == stoi(response.headers["grpc-status"])
    IN  IF "grpc-status" \notin DOMAIN response.headers
        THEN [st |-> StatusOK, out |-> data]
        ELSE IF g.thrown THEN [st |-> Thrown(g.what), out |-> data]
        ELSE IF g.value # 0
        THEN [st |-> Status(g.value,
                            MapAt(response.headers, "grpc-message", "Unknown gRPC error")),
              out |-> data]
        ELSE [st |-> StatusOK, out |-> data]

Letters == {"a", "b", "c", "d", "e", "f", "g", "h", "i", "j", "k", "l", "m", "n",
            "o", "p", "q", "r", "s", "t", "u", "v", "w", "x", "y", "z"}
\* getaddrinfo resolves no name with other characters than these
Resolvable(host) ==
    \A i \in 1..Len(host) : host[i] \in Letters \cup Digits \cup {".", "-"}

\* the channel with its transport: c = [connected_, connection_, m]
Channel_IsConnected(c) == c.connected_ /\ Http2Client_IsConnected(c.m)

\* Connect without the check of what Http2Client::Connect returned
Channel_Connect_Unchecked(c, target, secure, id, o) ==
    LET Parsed(p) ==
          LET c1 == [c EXCEPT !.connection_ =
                       [host |-> p.host, port |-> p.port, use_ssl |-> p.use_ssl]]
              Connected(r) ==
                [st |-> StatusOK, c |-> [c1 EXCEPT !.m = r.m, !.connected_ = TRUE],
                 called |-> TRUE]
          IN  IF ~ok(p.st) THEN [st |-> p.st, c |-> c, called |-> FALSE]
              ELSE Connected(Http2Client_Connect(c.m, id, p.use_ssl, o))
    IN  IF c.connected_ THEN [st |-> StatusOK, c |-> c, called |-> FALSE]
        ELSE Parsed(ParseTarget(target, secure))

\* Connect without the early return of a connected channel
Channel_Connect_Again(c, target, secure, id, o) ==
    LET Parsed(p) ==
          LET c1 == [c EXCEPT !.connection_ =
                       [host |-> p.host, port |-> p.port, use_ssl |-> p.use_ssl]]
              Connected(r) ==
                IF ~ok(r.st)
                THEN [st |-> r.st, c |-> [c1 EXCEPT !.m = r.m], called |-> TRUE]
                ELSE [st |-> StatusOK, c |-> [c1 EXCEPT !.m = r.m, !.connected_ = TRUE],
                      called |-> TRUE]
          IN  IF ~ok(p.st) THEN [st |-> p.st, c |-> c, called |-> FALSE]
              ELSE Connected(Http2Client_Connect(c.m, id, p.use_ssl, o))
    IN  Parsed(ParseTarget(target, secure))

\* Connect; id is the handle a new socket, TLS object and session get.
\* called: whether Http2Client::Connect was invoked
Channel_Connect(c, target, secure, id, o) ==
    LET Parsed(p) ==
          LET c1 == [c EXCEPT !.connection_ =
                       [host |-> p.host, port |-> p.port, use_ssl |-> p.use_ssl]]
              Connected(r) ==
                IF ~ok(r.st)
                THEN [st |-> r.st, c |-> [c1 EXCEPT !.m = r.m], called |-> TRUE]
                ELSE [st |-> StatusOK, c |-> [c1 EXCEPT !.m = r.m, !.connected_ = TRUE],
                      called |-> TRUE]
          IN  IF ~ok(p.st) THEN [st |-> p.st, c |-> c, called |-> FALSE]
              ELSE Connected(Http2Client_Connect(c.m, id, p.use_ssl, o))
    IN  IF c.connected_ THEN [st |-> StatusOK, c |-> c, called |-> FALSE]
        ELSE Parsed(ParseTarget(target, secure))

Channel_Disconnect(c, sendOk) ==
    [c EXCEPT !.m = Http2Client_Disconnect(@, sendOk), !.connected_ = FALSE]

\* WaitForConnected; after is the clock when Connect has returned.  The loop
\* sleeps and looks again: nothing it waits for changes while it sleeps, so it
\* ends with true at once or, when the deadline is reached, with IsConnected()
Channel_WaitForConnected(c, target, secure, id, o, after, deadline) ==
    LET Connected(r) ==
          IF ~ok(r.st)
          THEN [result |-> FALSE,
                st |-> IF r.st.code = THROWN THEN r.st ELSE StatusOK,
                connect_status |-> r.st, c |-> r.c, called |-> r.called]
          ELSE [result |-> IF after < deadline /\ Channel_IsConnected(r.c) THEN TRUE
                           ELSE Channel_IsConnected(r.c),
                st |-> StatusOK, connect_status |-> r.st, c |-> r.c,
                called |-> r.called]
    IN  IF Channel_IsConnected(c)
        THEN [result |-> TRUE, st |-> StatusOK, connect_status |-> StatusOK, c |-> c,
              called |-> FALSE]
        ELSE Connected(Channel_Connect(c, target, secure, id, o))

----------------------------------------------------------------------------
(* Inputs and environment *)

\* reads of one ProcessEvents call that complete no response frame
MaxIdleReads == 1
\* the length of a run of such reads, each one loop iteration
IdleBurst == 97

\* the channels constructed: target and whether the credentials are secure
Channels ==
    { [target |-> <<"h", ":", "8">>, secure |-> FALSE],
      [target |-> <<"h", "t", "t", "p", "s", ":", "/", "/", "h">>, secure |-> FALSE],
      [target |-> <<"b", "a", "d", " ", "t", "a", "r", "g", "e", "t", "!", "!">>,
       secure |-> TRUE],
      [target |-> <<"f", "t", "p", ":", "/", "/", "h">>, secure |-> FALSE],
      [target |-> <<"h", ":", "9", "9", "9", "9", "9", "9", "9", "9", "9", "9", "9">>,
       secure |-> FALSE] }

\* the clock when ExecuteRequest looks at the deadline
Times == {1}

\* no context, a plain one, one whose deadline has passed, and one with
\* metadata whose deadline is reached and not passed
Contexts ==
    { NullContext,
      DefaultContext,
      [DefaultContext EXCEPT !.has_deadline_ = TRUE, !.deadline_ = 0],
      [DefaultContext EXCEPT !.has_deadline_ = TRUE, !.deadline_ = 1,
                             !.authority_ = <<"v">>, !.user_agent_prefix_ = "dev",
                             !.metadata_ = MapPut(EmptyMap, "x-trace", "1")] }

RECURSIVE SeqsUpTo(_, _)
SeqsUpTo(S, k) ==
    IF k = 0 THEN {<<>>}
    ELSE LET shorter == SeqsUpTo(S, k - 1)
         IN  shorter \cup {Append(q, x) : q \in shorter, x \in S}

\* request payloads
Payloads == SeqsUpTo({7}, MaxPayload)

\* what the peer sends: ':status' values (nghttp2 passes on only three-digit
\* ones), trailer fields, and pieces of response body
StatusValues == {<<"2", "0", "0">>, <<"4", "0", "4">>}
GrpcStatusValues == {<<"0">>, <<"5">>, <<"x">>}
TrailerSets ==
    {EmptyMap}
    \cup {MapPut(EmptyMap, "grpc-status", v) : v \in GrpcStatusValues}
    \cup {MapPut(MapPut(EmptyMap, "grpc-status", <<"5">>), "grpc-message", "missing")}
\* the peer answers with a message of one byte, 9, behind its five-byte
\* prefix, in DATA frames of ChunkLen bytes
ResponseMessage == GrpcMessage(<<9>>)
ChunkLen == 3
NextChunks(body) ==
    IF Len(body) >= Len(ResponseMessage) THEN {}
    ELSE {SubSeq(ResponseMessage, Len(body) + 1,
                 IF Len(body) + ChunkLen > Len(ResponseMessage)
                 THEN Len(ResponseMessage) ELSE Len(body) + ChunkLen)}
LastStreamIds == {0, INT_MAX}

StreamFrames(m, stream_id) ==
    LET ph   == m.n.phase[StreamIndex(stream_id)]
        body == MapAt(m.s.responses, stream_id, Http2Response).body
    IN  (IF ph = "open"
         THEN {[type |-> "HEADERS", stream_id |-> stream_id, end_stream |-> FALSE,
                fields |-> MapPut(EmptyMap, ":status", v)] : v \in StatusValues}
              \cup
              {[type |-> "HEADERS", stream_id |-> stream_id, end_stream |-> TRUE,
                fields |-> MapPut(t, ":status", <<"2", "0", "0">>)] : t \in TrailerSets}
         ELSE {})
        \cup
        (IF ph = "headers"
         THEN {[type |-> "DATA", stream_id |-> stream_id, end_stream |-> e, data |-> d] :
                   e \in BOOLEAN, d \in NextChunks(body)}
              \cup
              {[type |-> "TRAILERS", stream_id |-> stream_id, end_stream |-> TRUE,
                fields |-> t] : t \in TrailerSets}
         ELSE {})
        \cup {[type |-> "RST_STREAM", stream_id |-> stream_id]}

\* the frames the peer can send next on the session; it sends one GOAWAY
PeerFrames(m) ==
    UNION {StreamFrames(m, sid) : sid \in ActiveStreams(m.n)}
    \cup (IF m.n.goaway_recv THEN {}
          ELSE {[type |-> "GOAWAY", last_stream_id |-> l] : l \in LastStreamIds})
    \cup {[type |-> "PROTOCOL_ERROR"]}

IdleReads ==
    {[type |-> "NONE", reads |-> IdleBurst], [type |-> "SETTINGS", reads |-> 1]}

\* what one blocking read can bring
Reads(m, idle) ==
    IF m.l # "up" THEN {[type |-> "ERROR"], [type |-> "CLOSED"]}
    ELSE {[type |-> "ERROR"], [type |-> "CLOSED"], [type |-> "FATAL"]} \cup PeerFrames(m)
         \cup (IF idle < MaxIdleReads THEN IdleReads ELSE {})

----------------------------------------------------------------------------
(* The state machine *)

\* reads: calls of SocketRecv so far; step: what the last step of the loop met
NoFrame == [iteration_count |-> 0, stream_id |-> 0, idle |-> 0, reads |-> 0,
            step |-> "none"]

NoCall ==
    [ op |-> "none", done |-> TRUE, status |-> StatusOK,
      ctx_expired    |-> FALSE,     \* the context's deadline had passed at entry
      was_connected  |-> FALSE,     \* IsConnected() at entry
      connect_called |-> FALSE,     \* the operation called Channel::Connect
      connect_status |-> StatusOK,  \* and what that returned
      n_connect      |-> 0,         \* calls of Http2Client::Connect
      outcome        |-> "none",    \* what the environment made of that call
      n_send         |-> 0,         \* calls of Http2Client::SendRequest
      send_status    |-> StatusOK,  \* and what that returned
      after_disconnect |-> FALSE,   \* the operation before was a Disconnect of
                                    \* a connected channel
      response_before |-> <<>>,     \* *response_data at entry
      allocs_before  |-> 0,
      result         |-> FALSE,     \* what WaitForConnected returned
      deadline       |-> 0,         \* the deadline it was given
      now            |-> 0,         \* the clock when it was called
      after          |-> 0,         \* the clock when its Connect returned
      via_stub       |-> FALSE,     \* the call came through StubInterface::MakeCall
      given          |-> <<>>,      \* with these arguments,
      received       |-> <<>>,      \* and these arrived at Channel::ExecuteRequest
      n_execute      |-> 0,         \* calls of Channel::ExecuteRequest
      iterations     |-> 0,         \* iterations ProcessEvents made,
      reads          |-> 0,         \* its calls of SocketRecv,
      step           |-> "none",    \* what its last step met,
      wanted         |-> FALSE ]    \* the engine wanted to read or write when
                                    \* it returned

\* the objects beside the channel as their constructors leave them
NewNanopbBytes == [data |-> <<>>, null |-> TRUE, size |-> 0, capacity |-> 0]
\* a byte of a buffer that was allocated and never written
Indeterminate == 255

NewNanopbString ==
    [ data |-> <<>>, null |-> TRUE, size |-> 0, capacity |-> 0,
      wild |-> "none" ]       \* where the last store outside the buffer went
NewNanopbStringArray == [strings |-> <<>>, null |-> TRUE, count |-> 0, capacity |-> 0]
NewNanopbStrings ==
    [ string |-> NewNanopbString, array |-> NewNanopbStringArray,
      crashed |-> FALSE ]     \* a store outside a buffer has ended the process

\* the threads that call the logger
LogThreads == {1, 2}

\* g_log_context = {0} and g_log_mutex = PTHREAD_MUTEX_INITIALIZER
NewLogger ==
    [ initialized |-> FALSE, config |-> "zero",
      mutex |-> 0,                              \* the thread that locked it, 0: none
      at |-> [t \in LogThreads |-> "idle"],     \* where each thread is in log_init
      given |-> [t \in LogThreads |-> "NULL"],  \* the config it was called with
      calls |-> [t \in LogThreads |-> 0] ]      \* log_init calls it has made

NewChannelArguments ==
    [int_args_ |-> EmptyMap, string_args_ |-> EmptyMap, pointer_args_ |-> EmptyMap]
NewDeviceClient ==
    [ status_ |-> "DISCONNECTED", running_ |-> FALSE, stub_ |-> FALSE,
      session_id_ |-> FALSE,  \* a session id is held
      user |-> "idle",        \* where the user's thread is
      raced |-> FALSE,        \* unsynchronised accesses have broken the client
      hb |-> "none",          \* where the heartbeat thread is
      i |-> 0,                \* its count of seconds waited
      server_up |-> TRUE,     \* the server can be reached
      outages |-> 0,          \* times the server was lost
      hb_failed |-> FALSE ]   \* a heartbeat has failed

CoreInitWith(bound) ==
    /\ client_context = DefaultContext
    /\ nanopb = NewNanopbBytes
    /\ channel_args = NewChannelArguments
    /\ stub_channel_ = bound
    /\ dev = NewDeviceClient
    /\ nanopb_str = NewNanopbStrings
    /\ g_log_ctx = NewLogger
CoreInit == CoreInitWith(TRUE)

Chan ==
    [ connected_ |-> connected_, connection_ |-> connection_,
      m |-> [s |-> state_, n |-> ng, l |-> link] ]

Init ==
    /\ \E ch \in Channels : target_ = ch.target /\ credentials_ = ch.secure
    /\ connected_ = FALSE
    /\ connection_ = [host |-> <<>>, port |-> 0, use_ssl |-> FALSE]
    /\ state_ = ConnectionState
    /\ ng = NewSession
    /\ link = "none"
    /\ allocs = 0
    /\ pc = "idle"
    /\ frame = NoFrame
    /\ response_data = <<255>>
    /\ call = NoCall
    /\ CoreInit

Set(c, a, out, cl, newpc, fr) ==
    /\ connected_' = c.connected_
    /\ connection_' = c.connection_
    /\ state_' = c.m.s
    /\ ng' = c.m.n
    /\ link' = c.m.l
    /\ allocs' = a
    /\ response_data' = out
    /\ call' = cl
    /\ pc' = newpc
    /\ frame' = fr
    /\ UNCHANGED <<target_, credentials_>>
    /\ UNCHANGED core

Entry(op) ==
    [NoCall EXCEPT !.op = op, !.done = FALSE,
                   !.was_connected = Channel_IsConnected(Chan),
                   !.after_disconnect = (call.op = "Disconnect" /\ call.was_connected),
                   !.response_before = response_data,
                   !.allocs_before = allocs]

\* the outcomes open to Channel::Connect on c
OutcomesFor(c) ==
    LET Parsed(p) == IF ~ok(p.st) THEN {"ok"}
                     ELSE ConnectOutcomes(Resolvable(p.host), p.use_ssl)
    IN  IF c.connected_ \/ c.m.s.connected THEN {"ok"}
        ELSE Parsed(ParseTarget(target_, credentials_))

\* a Http2Client::Connect that gets past its first check takes a new handle
Allocates(c, r) == r.called /\ ~c.m.s.connected

Connect ==
    /\ pc = "idle"
    /\ \E o \in OutcomesFor(Chan) :
         LET Connected(r, a) ==
               /\ a <= MaxConnects
               /\ Set(r.c, a, response_data,
                      [Entry("Connect") EXCEPT !.done = TRUE, !.status = r.st,
                           !.connect_called = TRUE, !.connect_status = r.st,
                           !.n_connect = IF r.called THEN 1 ELSE 0,
                           !.outcome = IF r.called THEN o ELSE "none"],
                      "idle", NoFrame)
             Allocated(r) == Connected(r, IF Allocates(Chan, r) THEN allocs + 1 ELSE allocs)
         IN  Allocated(Channel_Connect(Chan, target_, credentials_, allocs + 1, o))

Disconnect ==
    /\ pc = "idle"
    /\ \E sendOk \in BOOLEAN :
         Set(Channel_Disconnect(Chan, sendOk), allocs, response_data,
             [Entry("Disconnect") EXCEPT !.done = TRUE], "idle", NoFrame)

\* MakeCall that forwards no context
StubInterface_Forward_NoContext(method, context, request_data) ==
    [method |-> method, context |-> NullContext, request_data |-> request_data]

\* the arguments StubInterface::MakeCall hands to Channel::ExecuteRequest
StubInterface_Forward(method, context, request_data) ==
    [method |-> method, context |-> context, request_data |-> request_data]

\* ExecuteRequest(method, context, request_data, ...) from the channel c,
\* connected or with Connect's result r, up to the loop of ProcessEvents.  Of
\* a call made through a stub, e keeps the arguments that arrived
ExecuteRequest_Call(r, a, e, method, ctx, request_data) ==
    /\ a <= MaxConnects
    /\ \E now \in Times :
         LET e0 == [e EXCEPT !.ctx_expired = (~ctx.null /\ ctx.has_deadline_
                                                /\ now > ctx.deadline_),
                             !.received = IF e.via_stub
                                          THEN [method |-> method, context |-> ctx,
                                                request_data |-> request_data]
                                          ELSE @]
             e1 == [e0 EXCEPT !.n_send = 1]
             Submitted(q) ==
                 IF ~ok(q.st)
                 THEN Set([r.c EXCEPT !.m = q.m], a, response_data,
                          [e1 EXCEPT !.done = TRUE, !.status = q.st,
                                     !.send_status = q.st],
                          "idle", NoFrame)
                 ELSE /\ Len(r.c.m.n.phase) < MaxStreams
                      /\ Set([r.c EXCEPT !.m = q.m], a, response_data, e1, "loop",
                             [NoFrame EXCEPT !.stream_id = q.m.s.current_stream_id])
         IN
         IF ~ok(r.st)
         THEN Set(r.c, a, response_data,
                  [e0 EXCEPT !.done = TRUE, !.status = r.st], "idle", NoFrame)
         ELSE IF ~ctx.null /\ IsExpired(ctx, now)
         THEN Set(r.c, a, response_data,
                  [e0 EXCEPT !.done = TRUE,
                       !.status = Status(DEADLINE_EXCEEDED, "Request deadline exceeded")],
                  "idle", NoFrame)
         ELSE \E sub \in {"submit_fail", "data_queued", "data_refused"} :
                Submitted(SendRequest_Submit(
                              r.c.m, "POST", method,
                              RequestHeaders(ctx, r.c.connection_),
                              GrpcMessage(request_data), sub))

ExecuteRequest_From(r, a, e) ==
    \E ctx \in Contexts, request_data \in Payloads :
        ExecuteRequest_Call(r, a, e, "/svc/method", ctx, request_data)

ExecuteRequest ==
    /\ pc = "idle"
    /\ \E o \in (IF Channel_IsConnected(Chan) THEN {"ok"} ELSE OutcomesFor(Chan)) :
         LET Connected(r) ==
               ExecuteRequest_From(
                   r, IF Allocates(Chan, r) THEN allocs + 1 ELSE allocs,
                   [Entry("ExecuteRequest") EXCEPT
                        !.connect_called = ~Channel_IsConnected(Chan),
                        !.connect_status = r.st,
                        !.n_connect = IF r.called THEN 1 ELSE 0,
                        !.outcome = IF r.called THEN o ELSE "none"])
         IN  Connected(IF Channel_IsConnected(Chan)
                       THEN [st |-> StatusOK, c |-> Chan, called |-> FALSE]
                       ELSE Channel_Connect(Chan, target_, credentials_, allocs + 1, o))

\* the call returns from inside or after ProcessEvents with status st
Return(st, m, iteration_count, reads, step) ==
    LET f == SendRequest_Finish(st, m, frame.stream_id)
        x == ExecuteRequest_Finish(f.st, f.response, response_data)
    IN  Set([Chan EXCEPT !.m = f.m], allocs, x.out,
            [call EXCEPT !.done = TRUE, !.status = x.st, !.send_status = f.st,
                         !.iterations = iteration_count, !.reads = reads,
                         !.step = step,
                         !.wanted = \/ nghttp2_session_want_read(m.n)
                                    \/ nghttp2_session_want_write(m.n)],
            "idle", NoFrame)

\* one iteration of the loop of ProcessEvents (a burst of idle reads: as many)
\* and, when it ends the loop, the rest of SendRequest and ExecuteRequest
ProcessEvents ==
    /\ pc = "loop"
    /\ \E sendOk \in BOOLEAN :
         LET iteration_count == frame.iteration_count + 1
             r1 == SendData(Chan.m, sendOk)
             want_read == nghttp2_session_want_read(r1.m.n)
             want_write == nghttp2_session_want_write(r1.m.n)
         IN  IF ~ok(r1.st)
             THEN Return(r1.st, r1.m, iteration_count, frame.reads, "SEND_FAILED")
             ELSE IF ~want_read /\ ~want_write
             THEN Return(ProcessEvents_AfterLoop(iteration_count), r1.m,
                         iteration_count, frame.reads, "BREAK")
             ELSE IF ~want_read
             THEN IF iteration_count >= max_iterations
                  THEN Return(ProcessEvents_AfterLoop(iteration_count), r1.m,
                              iteration_count, frame.reads, "SENT")
                  ELSE Set([Chan EXCEPT !.m = r1.m], allocs, response_data, call, "loop",
                           [frame EXCEPT !.iteration_count = iteration_count,
                                         !.step = "SENT"])
             ELSE \E rd \in Reads(r1.m, frame.idle) :
                    LET r2 == ReceiveData(r1.m, rd)
                        isIdle == rd \in IdleReads
                        n  == IF isIdle THEN iteration_count + rd.reads - 1
                              ELSE iteration_count
                        after == IF n > max_iterations THEN max_iterations ELSE n
                        reads == frame.reads + 1 + (after - iteration_count)
                    IN  IF ~ok(r2.st)
                        THEN Return(r2.st, r2.m, iteration_count, reads, rd.type)
                        ELSE IF after >= max_iterations
                        THEN Return(ProcessEvents_AfterLoop(after), r2.m, after, reads,
                                    rd.type)
                        ELSE Set([Chan EXCEPT !.m = r2.m], allocs, response_data, call,
                                 "loop",
                                 [frame EXCEPT !.iteration_count = after,
                                               !.reads = reads, !.step = rd.type,
                                               !.idle = IF isIdle THEN @ + 1 ELSE @])

Next == Connect \/ Disconnect \/ ExecuteRequest \/ ProcessEvents

Spec == Init /\ [][Next]_vars

----------------------------------------------------------------------------
(* Connecting and disconnecting alone, over a range of targets *)

\* well-formed targets by their parts: scheme, host, and port as text and number
TargetSchemes == {<<>>, <<"h", "t", "t", "p">>, <<"h", "t", "t", "p", "s">>}
TargetHosts == {<<"f", "o", "o">>,
                <<"e", "x", "a", "m", "p", "l", "e", ".", "c", "o", "m">>}
TargetPorts == {[text |-> <<>>, value |-> 0],
                [text |-> <<"4", "4", "3">>, value |-> 443],
                [text |-> <<"8", "4", "4", "3">>, value |-> 8443]}
TargetCases == [scheme : TargetSchemes, host : TargetHosts, port : TargetPorts]
TargetText(tc) ==
    (IF tc.scheme = <<>> THEN <<>> ELSE tc.scheme \o <<":", "/", "/">>)
    \o tc.host
    \o (IF tc.port.text = <<>> THEN <<>> ELSE <<":">> \o tc.port.text)

ConnectChannels ==
    Channels \cup {[target |-> TargetText(tc), secure |-> s] :
                      tc \in TargetCases, s \in BOOLEAN}

\* the deadlines WaitForConnected is given and the time its Connect takes;
\* it is called when the clock shows CallTime
CallTime == 1
WaitDeadlines == {0, 2}
ConnectTimes == {0, 2}

InitConnect ==
    /\ \E ch \in ConnectChannels : target_ = ch.target /\ credentials_ = ch.secure
    /\ connected_ = FALSE
    /\ connection_ = [host |-> <<>>, port |-> 0, use_ssl |-> FALSE]
    /\ state_ = ConnectionState
    /\ ng = NewSession
    /\ link = "none"
    /\ allocs = 0
    /\ pc = "idle"
    /\ frame = NoFrame
    /\ response_data = <<255>>
    /\ call = NoCall
    /\ CoreInit

WaitForConnected ==
    /\ pc = "idle"
    /\ \E deadline \in WaitDeadlines, took \in ConnectTimes,
          o \in (IF Channel_IsConnected(Chan) THEN {"ok"} ELSE OutcomesFor(Chan)) :
         LET Waited(w, a) ==
               /\ a <= MaxConnects
               /\ Set(w.c, a, response_data,
                      [Entry("WaitForConnected") EXCEPT
                           !.done = TRUE, !.status = w.st, !.result = w.result,
                           !.connect_called = ~Channel_IsConnected(Chan),
                           !.connect_status = w.connect_status,
                           !.n_connect = IF w.called THEN 1 ELSE 0,
                           !.outcome = IF w.called THEN o ELSE "none",
                           !.deadline = deadline, !.now = CallTime,
                           !.after = IF Channel_IsConnected(Chan) THEN CallTime
                                     ELSE CallTime + took],
                      "idle", NoFrame)
             Allocated(w) == Waited(w, IF Allocates(Chan, w) THEN allocs + 1 ELSE allocs)
         IN  Allocated(Channel_WaitForConnected(Chan, target_, credentials_, allocs + 1,
                                                o, CallTime + took, deadline))

NextConnect == Connect \/ Disconnect \/ WaitForConnected

SpecConnect == InitConnect /\ [][NextConnect]_vars

----------------------------------------------------------------------------
(* The encoding done by ExecuteRequest alone: from the resting state, a    *)
(* request is framed, a response is taken apart, or the headers of a      *)
(* request are built                                                      *)

\* payloads: every byte sequence up to this length over FramedBytes, and
\* runs of one byte of the lengths in LongLengths
MaxFramed == 4
FramedBytes == {0, 105, 112}
LongLengths == {255, 256, 300}
FramedPayloads ==
    SeqsUpTo(FramedBytes, MaxFramed)
    \cup {<<112, 105, 110, 103>>}
    \cup {[i \in 1..n |-> 1] : n \in LongLengths}

\* the compression algorithms a context can name
CompressionAlgorithms == {"", "gzip"}

\* response bodies: framed payloads, bodies too short for a prefix, and one
\* whose prefix does not give its length
ResponseBodies ==
    {GrpcMessage(q) : q \in SeqsUpTo(FramedBytes, MaxFramed - 1)}
    \cup {GrpcMessage(<<112, 105, 110, 103>>), GrpcMessage([i \in 1..256 |-> 1])}
    \cup SeqsUpTo({0, 1}, 4)
    \cup {<<1, 0, 0, 0, 9, 112>>}
HttpCodes == {0, 200, 204, 404, 503}
SendStatuses == {StatusOK, Status(UNAVAILABLE, "Connection closed")}

\* ExecuteRequest builds grpc_message of request_data
FrameRequest ==
    /\ pc = "idle" /\ frame = NoFrame
    /\ \E request_data \in FramedPayloads, algorithm \in CompressionAlgorithms :
         /\ frame' = [op |-> "FrameRequest", compression_algorithm_ |-> algorithm,
                      request_data |-> request_data,
                      grpc_message |-> GrpcMessage(request_data)]
         /\ UNCHANGED <<target_, credentials_, connected_, connection_, state_, ng,
                        link, allocs, pc, response_data, call>>
         /\ UNCHANGED core

\* ExecuteRequest takes the response SendRequest handed it apart
UnframeResponse ==
    /\ pc = "idle" /\ frame = NoFrame
    /\ \E st \in SendStatuses, code \in HttpCodes, body \in ResponseBodies,
          trailers \in TrailerSets \cup
                       {MapPut(EmptyMap, "grpc-status", v) :
                          v \in {<<"1", "6">>, <<"1", "7">>, <<"-", "2">>}} :
         LET response == [status_code |-> code, headers |-> trailers, body |-> body]
             Finished(x) ==
               /\ response_data' = x.out
               /\ call' = [NoCall EXCEPT !.op = "ExecuteRequest", !.status = x.st,
                                         !.n_send = 1, !.send_status = st,
                                         !.response_before = response_data]
         IN  /\ Finished(ExecuteRequest_Finish(st, response, response_data))
             /\ frame' = [op |-> "UnframeResponse", response |-> response]
             /\ UNCHANGED <<target_, credentials_, connected_, connection_, state_, ng,
                            link, allocs, pc>>
             /\ UNCHANGED core

\* contexts for the headers: every set of metadata keys out of the header
\* names in use, with and without authority override and user-agent prefix
MetadataValue(k) == IF k = ":authority" THEN <<"m">> ELSE "m"
MetadataSets ==
    {[k \in K |-> MetadataValue(k)] :
        K \in SUBSET {HeaderNameOrder[i] : i \in 1..Len(HeaderNameOrder)}}
HeaderContexts ==
    {NullContext}
    \cup {[DefaultContext EXCEPT !.authority_ = a, !.user_agent_prefix_ = u,
                                 !.metadata_ = md] :
             a \in {<<>>, <<"v">>}, u \in {"", "dev"}, md \in MetadataSets}

\* ExecuteRequest builds the headers of a request on the connection the target
\* names, and SendRequest the name/value array of them
BuildHeaders ==
    /\ pc = "idle" /\ frame = NoFrame
    /\ \E ctx \in HeaderContexts :
         LET Parsed(p) ==
               /\ ok(p.st)
               /\ frame' = [op |-> "BuildHeaders", context |-> ctx,
                            nva |-> BuildNva([use_ssl |-> p.use_ssl], "POST",
                                       "/svc/method",
                                       RequestHeaders(ctx, [host |-> p.host,
                                                            port |-> p.port,
                                                            use_ssl |-> p.use_ssl]))]
         IN  Parsed(ParseTarget(target_, credentials_))
    /\ UNCHANGED <<target_, credentials_, connected_, connection_, state_, ng,
                   link, allocs, pc, response_data, call>>
    /\ UNCHANGED core

\* a Status, default-constructed or made of a code and a message, is asked
\* ok() and ToString(); a code beyond the enumeration can be cast into it
StatusToString ==
    /\ pc = "idle" /\ frame = NoFrame
    /\ \E st \in {StatusOK} \cup {Status(code, message) :
                                    code \in OK..(UNAUTHENTICATED + 1),
                                    message \in {"", "boom"}} :
         frame' = [op |-> "ToString", status |-> st, ok |-> ok(st),
                   text |-> Status_ToString(st)]
    /\ UNCHANGED <<target_, credentials_, connected_, connection_, state_, ng,
                   link, allocs, pc, response_data, call>>
    /\ UNCHANGED core

NextCodec == FrameRequest \/ UnframeResponse \/ BuildHeaders \/ StatusToString

SpecCodec == Init /\ [][NextCodec]_vars

----------------------------------------------------------------------------
(* A ClientContext alone: metadata added, a deadline set, the timeout asked *)
(* for, and the headers of a request built of it                           *)

MaxAdds == 2
MetadataKeys == {"x-trace", "X-Trace"}
MetadataValues == {"1", "2"}
\* deadlines and the clock of a query, in ticks: a deadline passed, reached,
\* one tick ahead, and far ahead
ContextDeadlines == {0, 1, 2, 40001, 65537}
QueryTimes == {1}

\* the AddMetadata calls made so far, in order
Added == IF "added" \in DOMAIN call THEN call.added ELSE <<>>

AddMetadata ==
    /\ pc = "idle" /\ frame = NoFrame
    /\ Len(Added) < MaxAdds
    /\ \E key \in MetadataKeys, value \in MetadataValues :
         /\ client_context' = ClientContext_AddMetadata(client_context, key, value)
         /\ call' = [op |-> "AddMetadata", done |-> TRUE,
                     added |-> Append(Added, <<key, value>>)]
    /\ UNCHANGED <<target_, credentials_, connected_, connection_, state_, ng, link,
                   allocs, pc, frame, response_data,
                   nanopb, channel_args, stub_channel_, dev,
                   nanopb_str, g_log_ctx>>

set_deadline ==
    /\ pc = "idle" /\ frame = NoFrame
    /\ ~client_context.has_deadline_
    /\ \E deadline \in ContextDeadlines :
         client_context' = ClientContext_set_deadline(client_context, deadline)
    /\ call' = [op |-> "set_deadline", done |-> TRUE, added |-> Added]
    /\ UNCHANGED <<target_, credentials_, connected_, connection_, state_, ng, link,
                   allocs, pc, frame, response_data,
                   nanopb, channel_args, stub_channel_, dev,
                   nanopb_str, g_log_ctx>>

\* IsExpired() and GetTimeoutMs() asked at the same instant
QueryTimeout ==
    /\ pc = "idle" /\ frame = NoFrame
    /\ \E now \in QueryTimes :
         call' = [op |-> "GetTimeoutMs", done |-> TRUE, added |-> Added, now |-> now,
                  expired |-> IsExpired(client_context, now),
                  result |-> GetTimeoutMs(client_context, now)]
    /\ UNCHANGED <<target_, credentials_, connected_, connection_, state_, ng, link,
                   allocs, pc, frame, response_data>>
    /\ UNCHANGED core

\* ExecuteRequest builds the headers of a request with this context
BuildContextHeaders ==
    /\ pc = "idle" /\ frame = NoFrame
    /\ LET Parsed(p) ==
             /\ ok(p.st)
             /\ frame' = [op |-> "BuildHeaders", context |-> client_context,
                          nva |-> BuildNva([use_ssl |-> p.use_ssl], "POST",
                                     "/svc/method",
                                     RequestHeaders(client_context,
                                                    [host |-> p.host, port |-> p.port,
                                                     use_ssl |-> p.use_ssl]))]
       IN  Parsed(ParseTarget(target_, credentials_))
    /\ UNCHANGED <<target_, credentials_, connected_, connection_, state_, ng,
                   link, allocs, pc, response_data, call>>
    /\ UNCHANGED core

NextContext == AddMetadata \/ set_deadline \/ QueryTimeout \/ BuildContextHeaders

SpecContext == Init /\ [][NextContext]_vars

----------------------------------------------------------------------------
(* Calls through a stub, with and without a channel bound *)

Methods == {"/svc/method", "/svc/other"}

\* the channel a stub is bound to
StubChannels == {ch \in Channels : ch.target = <<"h", ":", "8">>}

InitStub ==
    /\ \E ch \in StubChannels : target_ = ch.target /\ credentials_ = ch.secure
    /\ connected_ = FALSE
    /\ connection_ = [host |-> <<>>, port |-> 0, use_ssl |-> FALSE]
    /\ state_ = ConnectionState
    /\ ng = NewSession
    /\ link = "none"
    /\ allocs = 0
    /\ pc = "idle"
    /\ frame = NoFrame
    /\ response_data = <<255>>
    /\ call = NoCall
    /\ \E bound \in BOOLEAN : CoreInitWith(bound)

MakeCall ==
    /\ pc = "idle"
    /\ \E method \in Methods, ctx \in Contexts, request_data \in Payloads,
          o \in (IF Channel_IsConnected(Chan) THEN {"ok"} ELSE OutcomesFor(Chan)) :
         LET given == [method |-> method, context |-> ctx,
                       request_data |-> request_data]
             Forwarded(args, r) ==
               ExecuteRequest_Call(
                   r, IF Allocates(Chan, r) THEN allocs + 1 ELSE allocs,
                   [Entry("ExecuteRequest") EXCEPT
                        !.via_stub = TRUE, !.given = given, !.n_execute = 1,
                        !.connect_called = ~Channel_IsConnected(Chan),
                        !.connect_status = r.st,
                        !.n_connect = IF r.called THEN 1 ELSE 0,
                        !.outcome = IF r.called THEN o ELSE "none"],
                   args.method, args.context, args.request_data)
         IN  IF ~stub_channel_
             THEN Set(Chan, allocs, response_data,
                      [Entry("ExecuteRequest") EXCEPT
                           !.via_stub = TRUE, !.given = given, !.done = TRUE,
                           !.status = Status(INTERNAL, "Channel not available")],
                      "idle", NoFrame)
             ELSE Forwarded(StubInterface_Forward(method, ctx, request_data),
                            IF Channel_IsConnected(Chan)
                            THEN [st |-> StatusOK, c |-> Chan, called |-> FALSE]
                            ELSE Channel_Connect(Chan, target_, credentials_,
                                                 allocs + 1, o))

NextStub == MakeCall \/ ProcessEvents

SpecStub == InitStub /\ [][NextStub]_vars

----------------------------------------------------------------------------
(* A NanopbBytes alone *)

\* SetBytes: realloc keeps what the buffer held; it is taken to succeed
NanopbBytes_SetBytes(n, bytes) ==
    LET grown == Len(bytes) > n.capacity
        capacity == IF grown THEN Len(bytes) ELSE n.capacity
    IN  [ size |-> Len(bytes), capacity |-> capacity,
          null |-> n.null /\ ~grown,
          data |-> bytes \o (IF grown THEN <<>>
                             ELSE SubSeq(n.data, Len(bytes) + 1, n.capacity)) ]

\* ToString that reads the buffer as a C string
NanopbBytes_ToString_CStr(n) ==
    IF n.null \/ n.size = 0 THEN <<>>
    ELSE SubSeq(n.data, 1, strlen(SubSeq(n.data, 1, n.size)))

NanopbBytes_ToString(n) ==
    IF n.null \/ n.size = 0 THEN <<>> ELSE SubSeq(n.data, 1, n.size)

MaxBytes == 3

SetBytes ==
    /\ pc = "idle" /\ frame = NoFrame
    /\ \E bytes \in SeqsUpTo({0, 65}, MaxBytes) :
         /\ nanopb' = NanopbBytes_SetBytes(nanopb, bytes)
         /\ call' = [op |-> "SetBytes", done |-> TRUE, bytes |-> bytes]
    /\ UNCHANGED <<target_, credentials_, connected_, connection_, state_, ng, link,
                   allocs, pc, frame, response_data,
                   client_context, channel_args, stub_channel_, dev,
                   nanopb_str, g_log_ctx>>

BytesToString ==
    /\ pc = "idle" /\ frame = NoFrame
    /\ call.op = "SetBytes"
    /\ call' = [op |-> "ToString", done |-> TRUE, bytes |-> call.bytes,
                text |-> NanopbBytes_ToString(nanopb)]
    /\ UNCHANGED <<target_, credentials_, connected_, connection_, state_, ng, link,
                   allocs, pc, frame, response_data>>
    /\ UNCHANGED core

NextBytes == SetBytes \/ BytesToString

SpecBytes == Init /\ [][NextBytes]_vars

----------------------------------------------------------------------------
(* A NanopbString and a NanopbStringArray alone *)

\* SetString: realloc keeps what the buffer held and is taken to succeed; the
\* buffer grows only when the string is longer than the capacity, and the
\* terminator is stored at data[size] wherever that is
NanopbString_SetString(n, str) ==
    LET size == Len(str)
        grown == size > n.capacity
        capacity == IF grown THEN size + 1 ELSE n.capacity
        null == n.null /\ ~grown
        held == IF grown
                THEN n.data \o [i \in 1..(capacity - n.capacity) |-> Indeterminate]
                ELSE n.data
        copied == [i \in 1..capacity |-> IF i <= size THEN str[i] ELSE held[i]]
        inside == ~null /\ size < capacity
    IN  [ size |-> size, capacity |-> capacity, null |-> null,
          data |-> IF inside THEN [copied EXCEPT ![size + 1] = 0] ELSE copied,
          wild |-> IF null THEN "null" ELSE IF inside THEN "none" ELSE "past_end" ]

NanopbString_ToString(n) ==
    IF n.null \/ n.size = 0 THEN <<>> ELSE SubSeq(n.data, 1, n.size)

\* AddString: the array grows 0, 4, 8, ...; the new element is constructed in
\* place and then set
NanopbStringArray_AddString(a, str) ==
    LET grown == a.count >= a.capacity
    IN  [ capacity |-> IF grown THEN (IF a.capacity = 0 THEN 4 ELSE a.capacity * 2)
                       ELSE a.capacity,
          null |-> a.null /\ ~grown,
          strings |-> Append(a.strings, NanopbString_SetString(NewNanopbString, str)),
          count |-> a.count + 1 ]

NanopbStringArray_ToVector(a) ==
    [i \in 1..a.count |-> NanopbString_ToString(a.strings[i])]

MaxChars == 2
MaxSetStrings == 2
MaxAddStrings == 2

Strings == SeqsUpTo({97, 98}, MaxChars)

\* the strings given to SetString and to AddString so far
StringsSet == IF call.op \in {"SetString", "AddString"} THEN call.set ELSE <<>>
StringsAdded == IF call.op \in {"SetString", "AddString"} THEN call.added ELSE <<>>

\* a store outside the buffer is undefined: the process ends or goes on
SetString ==
    /\ pc = "idle" /\ frame = NoFrame
    /\ ~nanopb_str.crashed
    /\ Len(StringsSet) < MaxSetStrings
    /\ \E str \in Strings :
         LET n == NanopbString_SetString(nanopb_str.string, str)
         IN  /\ \E crashed \in (IF n.wild = "none" THEN {FALSE} ELSE BOOLEAN) :
                   nanopb_str' = [nanopb_str EXCEPT !.string = n, !.crashed = crashed]
             /\ call' = [op |-> "SetString", done |-> TRUE,
                         set |-> Append(StringsSet, str), added |-> StringsAdded]
    /\ UNCHANGED <<target_, credentials_, connected_, connection_, state_, ng, link,
                   allocs, pc, frame, response_data,
                   client_context, nanopb, channel_args, stub_channel_, dev,
                   g_log_ctx>>

AddString ==
    /\ pc = "idle" /\ frame = NoFrame
    /\ ~nanopb_str.crashed
    /\ Len(StringsAdded) < MaxAddStrings
    /\ \E str \in Strings :
         LET a == NanopbStringArray_AddString(nanopb_str.array, str)
         IN  /\ \E crashed \in (IF a.strings[a.count].wild = "none"
                                THEN {FALSE} ELSE BOOLEAN) :
                   nanopb_str' = [nanopb_str EXCEPT !.array = a, !.crashed = crashed]
             /\ call' = [op |-> "AddString", done |-> TRUE,
                         set |-> StringsSet, added |-> Append(StringsAdded, str)]
    /\ UNCHANGED <<target_, credentials_, connected_, connection_, state_, ng, link,
                   allocs, pc, frame, response_data,
                   client_context, nanopb, channel_args, stub_channel_, dev,
                   g_log_ctx>>

NextStrings == SetString \/ AddString

SpecStrings == Init /\ [][NextStrings]_vars

----------------------------------------------------------------------------
(* A ChannelArguments alone: arguments set and asked for *)

ChannelArguments_SetInt(a, key, value) ==
    [a EXCEPT !.int_args_ = MapPut(@, key, value)]

ChannelArguments_SetString(a, key, value) ==
    [a EXCEPT !.string_args_ = MapPut(@, key, value)]

\* SetPointer that files the pointer among the strings
ChannelArguments_SetPointer_AsString(a, key, value) ==
    [a EXCEPT !.string_args_ = MapPut(@, key, value)]

ChannelArguments_SetPointer(a, key, value) ==
    [a EXCEPT !.pointer_args_ = MapPut(@, key, value)]

\* the three getters: whether the key was found, and what *value holds after
ChannelArguments_GetInt(a, key, value) ==
    IF key \in DOMAIN a.int_args_
    THEN [found |-> TRUE, value |-> a.int_args_[key]]
    ELSE [found |-> FALSE, value |-> value]

ChannelArguments_GetString(a, key, value) ==
    IF key \in DOMAIN a.string_args_
    THEN [found |-> TRUE, value |-> a.string_args_[key]]
    ELSE [found |-> FALSE, value |-> value]

ChannelArguments_GetPointer(a, key, value) ==
    IF key \in DOMAIN a.pointer_args_
    THEN [found |-> TRUE, value |-> a.pointer_args_[key]]
    ELSE [found |-> FALSE, value |-> value]

MaxSets == 2
ArgumentKeys == {"grpc.a", "grpc.b"}
\* ints, strings and pointers (a pointer is named by what it points at)
ArgumentValues(type) ==
    CASE type = "int" -> {1, 2}
      [] type = "string" -> {"s", "t"}
      [] type = "pointer" -> {"p", "q"}

\* the Set calls made so far, oldest first
ArgumentsSet == IF "sets" \in DOMAIN call THEN call.sets ELSE <<>>

SetArgument ==
    /\ pc = "idle" /\ frame = NoFrame
    /\ Len(ArgumentsSet) < MaxSets
    /\ \E type \in {"int", "string", "pointer"}, key \in ArgumentKeys :
         \E value \in ArgumentValues(type) :
           /\ channel_args' =
                CASE type = "int" -> ChannelArguments_SetInt(channel_args, key, value)
                  [] type = "string" -> ChannelArguments_SetString(channel_args, key, value)
                  [] type = "pointer" -> ChannelArguments_SetPointer(channel_args, key, value)
           /\ call' = [op |-> "SetArgument", done |-> TRUE,
                       sets |-> Append(ArgumentsSet, <<type, key, value>>)]
    /\ UNCHANGED <<target_, credentials_, connected_, connection_, state_, ng, link,
                   allocs, pc, frame, response_data,
                   client_context, nanopb, stub_channel_, dev,
                   nanopb_str, g_log_ctx>>

GetArgument ==
    /\ pc = "idle" /\ frame = NoFrame
    /\ \E type \in {"int", "string", "pointer"}, key \in ArgumentKeys :
         \E value \in ArgumentValues(type) :
           LET got == CASE type = "int" -> ChannelArguments_GetInt(channel_args, key, value)
                        [] type = "string" -> ChannelArguments_GetString(channel_args, key, value)
                        [] type = "pointer" -> ChannelArguments_GetPointer(channel_args, key, value)
           IN  call' = [op |-> "GetArgument", done |-> TRUE, sets |-> ArgumentsSet,
                        type |-> type, key |-> key, before |-> value,
                        found |-> got.found, value |-> got.value]
    /\ UNCHANGED <<target_, credentials_, connected_, connection_, state_, ng, link,
                   allocs, pc, frame, response_data>>
    /\ UNCHANGED core

NextArguments == SetArgument \/ GetArgument

SpecArguments == Init /\ [][NextArguments]_vars

----------------------------------------------------------------------------
(* The device client: the user's calls, its heartbeat thread, and a server
   that is lost and comes back.  WaitForConnected, RegisterDevice and the
   Heartbeat call succeed exactly when the server can be reached. *)

MaxOutages == 2
\* ConnectionConfig::heartbeat_interval_s, as the user configures it
heartbeat_interval_s == 1

DeviceClient_IsConnected(d) == d.status_ = "CONNECTED"

\* Connect: CONNECTING, a new channel and stub, then CONNECTED or ERROR
DeviceClient_Connect(d) ==
    IF DeviceClient_IsConnected(d) THEN d
    ELSE [d EXCEPT !.stub_ = TRUE,
                   !.session_id_ = @ \/ d.server_up,
                   !.status_ = IF d.server_up THEN "CONNECTED" ELSE "ERROR",
                   !.hb_failed = @ /\ ~d.server_up]

DeviceClient_SendHeartbeat(d) == d.stub_ /\ DeviceClient_IsConnected(d) /\ d.server_up

\* Stop: running_ cleared, the heartbeat thread joined
DeviceClient_Stop(d) ==
    IF ~d.running_ THEN d
    ELSE [d EXCEPT !.running_ = FALSE, !.hb = "none", !.i = 0, !.hb_failed = FALSE]

DeviceStep(d) ==
    /\ pc = "idle" /\ frame = NoFrame
    /\ dev' = d
    /\ UNCHANGED <<target_, credentials_, connected_, connection_, state_, ng, link,
                   allocs, pc, frame, response_data, call,
                   client_context, nanopb, channel_args, stub_channel_,
                   nanopb_str, g_log_ctx>>

DeviceConnect == DeviceStep(DeviceClient_Connect(dev))

DeviceDisconnect ==
    /\ dev.status_ # "DISCONNECTED"
    /\ DeviceStep([DeviceClient_Stop(dev) EXCEPT !.stub_ = FALSE,
                                                 !.session_id_ = FALSE,
                                                 !.status_ = "DISCONNECTED"])

DeviceStart ==
    /\ dev.stub_ /\ dev.status_ = "CONNECTED"
    /\ ~dev.running_
    /\ DeviceStep([dev EXCEPT !.running_ = TRUE, !.hb = "top"])

DeviceStop == dev.running_ /\ DeviceStep(DeviceClient_Stop(dev))

\* the heartbeat thread: one step of HeartbeatLoop
HeartbeatLoop ==
    /\ dev.running_
    /\ \/ /\ dev.hb = "top"
          /\ IF DeviceClient_IsConnected(dev) /\ ~DeviceClient_SendHeartbeat(dev)
             THEN DeviceStep([dev EXCEPT !.status_ = "ERROR", !.hb_failed = TRUE,
                                         !.hb = "retry"])
             ELSE DeviceStep([dev EXCEPT !.hb = "wait", !.i = 0])
       \/ /\ dev.hb = "retry"
          /\ DeviceStep([DeviceClient_Connect(dev) EXCEPT !.hb = "wait", !.i = 0])
       \/ /\ dev.hb = "wait"
          /\ IF dev.i < heartbeat_interval_s
             THEN DeviceStep([dev EXCEPT !.i = @ + 1])
             ELSE DeviceStep([dev EXCEPT !.hb = "top"])

ServerLost ==
    /\ dev.server_up /\ dev.outages < MaxOutages
    /\ DeviceStep([dev EXCEPT !.server_up = FALSE, !.outages = @ + 1])

ServerBack == ~dev.server_up /\ DeviceStep([dev EXCEPT !.server_up = TRUE])

NextDevice ==
    \/ DeviceConnect \/ DeviceDisconnect \/ DeviceStart \/ DeviceStop
    \/ HeartbeatLoop \/ ServerLost \/ ServerBack

\* the heartbeat thread is scheduled and its sleeps end
SpecDevice == Init /\ [][NextDevice]_vars /\ WF_vars(HeartbeatLoop)

----------------------------------------------------------------------------
(* The device client with its calls taken apart: the user's thread and the
   heartbeat thread each stand before their next access to stub_ or
   session_id_.  No lock is taken around either member. *)

\* what a thread at this place reads or writes next
ThreadAccesses(at) ==
    CASE at = "stub_write"    -> {<<"stub_", "w">>}
      [] at = "register"      -> {<<"stub_", "r">>}
      [] at = "session_write" -> {<<"session_id_", "w">>}
      [] at = "heartbeat"     -> {<<"stub_", "r">>, <<"session_id_", "r">>}
      [] at = "reset"         -> {<<"stub_", "w">>, <<"session_id_", "w">>}
      [] OTHER                -> {}

\* the two threads are about to access one member, one of them writing
DataRace(d) ==
    \E a \in ThreadAccesses(d.user), b \in ThreadAccesses(d.hb) :
        a[1] = b[1] /\ "w" \in {a[2], b[2]}

\* Connect from its entry: already connected, or CONNECTING and on to the stub
Connect_Enter(d) ==
    IF DeviceClient_IsConnected(d) THEN [d |-> d, at |-> "done"]
    ELSE [d |-> [d EXCEPT !.status_ = "CONNECTING"], at |-> "stub_write"]

\* the rest of Connect, one access at a time
Connect_Step(d, at) ==
    CASE at = "stub_write" ->
           [d |-> [d EXCEPT !.stub_ = TRUE], at |-> "wait_connected"]
      [] at = "wait_connected" ->
           IF d.server_up THEN [d |-> d, at |-> "register"]
           ELSE [d |-> [d EXCEPT !.status_ = "ERROR"], at |-> "done"]
      [] at = "register" ->
           IF d.server_up THEN [d |-> d, at |-> "session_write"]
           ELSE [d |-> [d EXCEPT !.status_ = "ERROR"], at |-> "done"]
      [] at = "session_write" ->
           [d |-> [d EXCEPT !.session_id_ = TRUE, !.status_ = "CONNECTED"],
            at |-> "done"]

ConnectPlaces == {"stub_write", "wait_connected", "register", "session_write"}

\* a step of a thread; taken in a data race its outcome is undefined: the
\* client goes on, or is broken for good
ThreadStep(d) ==
    /\ ~dev.raced
    /\ \E raced \in (IF DataRace(dev) THEN BOOLEAN ELSE {FALSE}) :
          DeviceStep([d EXCEPT !.raced = raced])

\* the user's thread: Connect, SendHeartbeat and Disconnect, step by step
UserThread ==
    \/ /\ dev.user = "idle"
       /\ \/ LET c == Connect_Enter(dev)
             IN  /\ c.at # "done"
                 /\ ThreadStep([c.d EXCEPT !.user = c.at])
          \/ ThreadStep([dev EXCEPT !.user = "heartbeat"])
          \/ /\ dev.status_ # "DISCONNECTED"
             /\ ThreadStep([dev EXCEPT !.running_ = FALSE,
                                       !.user = IF dev.running_ THEN "join"
                                                ELSE "reset"])
    \/ /\ dev.user \in ConnectPlaces
       /\ LET c == Connect_Step(dev, dev.user)
          IN  ThreadStep([c.d EXCEPT !.user = IF c.at = "done" THEN "idle" ELSE c.at])
    \/ /\ dev.user = "heartbeat"
       /\ ThreadStep([dev EXCEPT !.user = "idle"])
    \/ /\ dev.user = "join" /\ dev.hb = "none"
       /\ ThreadStep([dev EXCEPT !.user = "reset"])
    \/ /\ dev.user = "reset"
       /\ ThreadStep([dev EXCEPT !.stub_ = FALSE, !.session_id_ = FALSE,
                                 !.status_ = "DISCONNECTED", !.user = "idle"])

\* Start, when it starts the heartbeat thread
UserStart == dev.user = "idle" /\ ~dev.raced /\ DeviceStart

\* the heartbeat thread: HeartbeatLoop, step by step
HeartbeatThread ==
    \/ /\ dev.hb = "top"
       /\ ThreadStep([dev EXCEPT !.hb = IF ~dev.running_ THEN "none"
                                        ELSE IF DeviceClient_IsConnected(dev)
                                             THEN "heartbeat" ELSE "wait",
                                 !.i = 0])
    \/ /\ dev.hb = "heartbeat"
       /\ IF DeviceClient_SendHeartbeat(dev)
          THEN ThreadStep([dev EXCEPT !.hb = "wait", !.i = 0])
          ELSE ThreadStep([dev EXCEPT !.status_ = "ERROR", !.hb_failed = TRUE,
                                      !.hb = "retry"])
    \/ /\ dev.hb = "retry"
       /\ LET c == Connect_Enter(dev)
          IN  IF dev.running_ /\ c.at # "done"
              THEN ThreadStep([c.d EXCEPT !.hb = c.at])
              ELSE ThreadStep([dev EXCEPT !.hb = "wait", !.i = 0])
    \/ /\ dev.hb \in ConnectPlaces
       /\ LET c == Connect_Step(dev, dev.hb)
          IN  ThreadStep([c.d EXCEPT !.hb = IF c.at = "done" THEN "wait" ELSE c.at,
                                     !.i = 0])
    \/ /\ dev.hb = "wait"
       /\ IF dev.i < heartbeat_interval_s /\ dev.running_
          THEN ThreadStep([dev EXCEPT !.i = @ + 1])
          ELSE ThreadStep([dev EXCEPT !.hb = "top"])

NextThreads ==
    \/ UserThread \/ UserStart \/ HeartbeatThread
    \/ (~dev.raced /\ ServerLost) \/ (~dev.raced /\ ServerBack)

SpecThreads == Init /\ [][NextThreads]_vars

----------------------------------------------------------------------------
(* The logger: threads calling log_init.  g_log_mutex is a default mutex:
   locking it again from the thread that holds it, and unlocking it from a
   thread that does not hold it, are undefined. *)

MaxLogCalls == 2

\* config arguments: a null pointer, or a configuration of the caller
LogConfigs == {"NULL", "debug"}

\* what log_init stores for a config argument
Installed(config) == IF config = "NULL" THEN "LOG_DEFAULT_CONFIG" ELSE config

\* pthread_mutex_lock(&g_log_mutex) by thread t: the contexts it may leave.
\* Held by another thread it blocks (no outcome yet); held by t itself it
\* blocks for good, or goes on without a second lock
pthread_mutex_lock(l, t, next) ==
    IF l.mutex = 0 THEN {[l EXCEPT !.mutex = t, !.at[t] = next]}
    ELSE IF l.mutex = t
         THEN {[l EXCEPT !.at[t] = "deadlocked"], [l EXCEPT !.at[t] = next]}
         ELSE {}

\* pthread_mutex_unlock(&g_log_mutex) by thread t: it releases the mutex;
\* held by another thread it is released all the same, or left alone
pthread_mutex_unlock(l, t, next) ==
    {[l EXCEPT !.mutex = 0, !.at[t] = next]}
    \cup (IF l.mutex \notin {0, t} THEN {[l EXCEPT !.at[t] = next]} ELSE {})

\* log_cleanup as log_init calls it, from the place `at` on
log_cleanup_Step(l, t) ==
    CASE l.at[t] = "cleanup_lock" -> pthread_mutex_lock(l, t, "cleanup_clear")
      [] l.at[t] = "cleanup_clear" ->
           {[l EXCEPT !.initialized = FALSE, !.at[t] = "cleanup_unlock"]}
      [] l.at[t] = "cleanup_unlock" -> pthread_mutex_unlock(l, t, "init_config")

\* log_init after its entry, from the place `at` on; it returns 0
log_init_Step(l, t) ==
    CASE l.at[t] = "init_lock" -> pthread_mutex_lock(l, t, "init_check")
      [] l.at[t] = "init_check" ->
           {[l EXCEPT !.at[t] = IF l.initialized THEN "cleanup_lock"
                                ELSE "init_config"]}
      [] l.at[t] \in {"cleanup_lock", "cleanup_clear", "cleanup_unlock"} ->
           log_cleanup_Step(l, t)
      [] l.at[t] = "init_config" ->
           {[l EXCEPT !.config = Installed(l.given[t]), !.initialized = TRUE,
                      !.at[t] = "init_unlock"]}
      [] l.at[t] = "init_unlock" ->
           pthread_mutex_unlock(l, t, "idle")
      [] OTHER -> {}

LogStep(l) ==
    /\ pc = "idle" /\ frame = NoFrame
    /\ g_log_ctx' = l
    /\ UNCHANGED <<target_, credentials_, connected_, connection_, state_, ng, link,
                   allocs, pc, frame, response_data, call,
                   client_context, nanopb, channel_args, stub_channel_, dev,
                   nanopb_str>>

\* a thread calls log_init(config)
log_init ==
    \E t \in LogThreads, config \in LogConfigs :
        /\ g_log_ctx.at[t] = "idle"
        /\ g_log_ctx.calls[t] < MaxLogCalls
        /\ LogStep([g_log_ctx EXCEPT !.at[t] = "init_lock", !.given[t] = config,
                                     !.calls[t] = @ + 1])

\* thread t goes on in its log_init
LogThread(t) == \E l \in log_init_Step(g_log_ctx, t) : LogStep(l)

NextLog == log_init \/ \E t \in LogThreads : LogThread(t)

\* every thread is scheduled
SpecLog == Init /\ [][NextLog]_vars /\ \A t \in LogThreads : WF_vars(LogThread(t))

----------------------------------------------------------------------------
(* Two requests on one session: what SendRequest collects for the second
   while frames of both streams arrive *)

MaxEvents == 3

\* frames the peer may send on a stream
StreamEvents(stream_id) ==
    {[type |-> "HEADERS", stream_id |-> stream_id, end_stream |-> FALSE,
      fields |-> MapPut(EmptyMap, ":status", v)] : v \in StatusValues}
    \cup {[type |-> "DATA", stream_id |-> stream_id, end_stream |-> FALSE,
           data |-> <<d>>] : d \in {1, 2}}
    \cup {[type |-> "TRAILERS", stream_id |-> stream_id, end_stream |-> FALSE,
           fields |-> MapPut(MapPut(EmptyMap, "grpc-status", <<g>>),
                             "grpc-message", "late")] : g \in {"0", "5"}}

\* the reads of ProcessEvents that bring the frames fs, one after another
RECURSIVE ReceiveAll(_, _, _)
ReceiveAll(m, fs, i) ==
    IF i > Len(fs) THEN m
    ELSE ReceiveAll(ReceiveData(m, fs[i]).m, fs, i + 1)

\* a first request whose SendRequest gave up with its stream still open, then
\* a second one on the same session, which succeeds
ReceiveOnStreams ==
    /\ pc = "idle" /\ frame = NoFrame
    /\ \E early \in SeqsUpTo({f \in StreamEvents(1) : f.type = "DATA" /\ f.data = <<1>>}, 1),
          late \in SeqsUpTo(StreamEvents(1) \cup StreamEvents(3), MaxEvents) :
         LET Submit(m) ==
               SendRequest_Submit(m, "POST", "/svc/method", EmptyMap, <<>>,
                                  "data_queued").m
             Second(m) ==
               LET f == SendRequest_Finish(StatusOK, ReceiveAll(m, late, 1),
                                           m.s.current_stream_id)
               IN  frame' = [op |-> "ReceiveOnStreams",
                             stream_id |-> m.s.current_stream_id,
                             early |-> early, late |-> late,
                             st |-> f.st, response |-> f.response]
         IN  Second(Submit(ReceiveAll(
                 Submit(Http2Client_Connect(Chan.m, 1, FALSE, "ok").m), early, 1)))
    /\ UNCHANGED <<target_, credentials_, connected_, connection_, state_, ng,
                   link, allocs, pc, response_data, call>>
    /\ UNCHANGED core

NextStreams == ReceiveOnStreams

SpecStreams == Init /\ [][NextStreams]_vars

----------------------------------------------------------------------------
(* Properties *)

\* the public operation op has returned
Returned(op) == pc = "idle" /\ call.op = op /\ call.done
\* ExecuteRequest has returned and SendRequest was called in it
Sent == Returned("ExecuteRequest") /\ call.n_send = 1
\* the state of the stream of the last request submitted to the session
LastPhase == IF ng.phase = <<>> THEN "none" ELSE ng.phase[Len(ng.phase)]

\* C1: whenever SendRequest returns OK, the peer has ended the request's
\* stream: headers, all body data and trailers were received before the return.
C1_OkMeansStreamEnded ==
    (Sent /\ ok(call.send_status)) => LastPhase = "ended"

\* C2: the bytes the data provider hands to the engine for a request body are
\* the whole framed body it was given, 0x00 bytes included, and it signals the
\* end of the data only with them all supplied.
C2_ProviderHandsWholeBody ==
    \A i \in 1..Len(ng.outq) :
        ng.outq[i].type = "DATA" =>
            LET r == read_callback(ng.outq[i].source, NGHTTP2_DATA_PAYLOADLEN)
            IN  r.rv = Len(ng.outq[i].source) /\ r.buf = ng.outq[i].source /\ r.eof

C4_GrpcStatusMapped ==
    [][ (pc = "loop" /\ pc' = "idle" /\ ok(call'.send_status)) =>
          LET r == state_.responses[frame.stream_id]
              present == "grpc-status" \in DOMAIN r.headers
              g == stoi(r.headers["grpc-status"])
          IN  r.status_code = 200 =>
                IF present /\ ~g.thrown /\ g.value # 0
                THEN call'.status =
                        Status(g.value,
                               MapAt(r.headers, "grpc-message", "Unknown gRPC error"))
                ELSE (~present /\ Len(r.body) >= 5) => ok(call'.status)
      ]_vars

\* C5: between public operations the Http2Client is fully disconnected (no
\* socket, no TLS session, no engine session, connected false) or fully
\* connected (socket and session present and of one connection, connected true).
FullyDisconnected ==
    /\ state_.socket_fd = -1 /\ state_.ssl = 0 /\ state_.session = 0
    /\ ~state_.connected
FullyConnected ==
    /\ state_.socket_fd >= 0 /\ state_.session # 0
    /\ state_.session = state_.socket_fd
    /\ state_.use_ssl => state_.ssl = state_.socket_fd
    /\ state_.connected
C5_NoPartialState == pc = "idle" => (FullyDisconnected \/ FullyConnected)

\* the response of the last request is held complete and correct
AnsweredCorrectly ==
    /\ LastPhase = "ended"
    /\ (2 * Len(ng.phase) - 1) \in DOMAIN state_.responses
    /\ LET r == state_.responses[2 * Len(ng.phase) - 1]
       IN  /\ r.status_code = 200
           /\ r.body = ResponseMessage
           /\ "grpc-status" \in DOMAIN r.headers => r.headers["grpc-status"] = <<"0">>

\* C6: after Disconnect of a connected channel IsConnected is false; the next
\* ExecuteRequest makes a whole new connection (new socket, TLS when used, new
\* session, SETTINGS sent), sends the request on it, and returns OK when the
\* server is reachable and answers correctly.
C6_ReconnectAnswersOK ==
    /\ (Returned("Disconnect") /\ call.was_connected) => ~Channel_IsConnected(Chan)
    /\ (call.op = "ExecuteRequest" /\ call.after_disconnect /\ call.outcome = "ok") =>
          /\ call.n_connect = 1
          /\ allocs = call.allocs_before + 1
          /\ state_.socket_fd = allocs /\ state_.session = allocs
          /\ state_.use_ssl => state_.ssl = allocs
          /\ ng.settings_sent
          /\ pc = "loop" => frame.stream_id = 1
    /\ (Sent /\ call.after_disconnect /\ call.outcome = "ok" /\ AnsweredCorrectly) =>
          ok(call.status)

\* C7: after SendRequest failed because the peer closed the connection or a
\* socket read or write failed, IsConnected is false for the transport and
\* for the channel.
C7_DeadConnectionNotConnected ==
    (Sent /\ call.send_status.message \in
                {"Connection closed", "Failed to receive data", "Failed to send data"})
        => (~Http2Client_IsConnected(Chan.m) /\ ~Channel_IsConnected(Chan))

C9_NeverThrows == call.status.code # THROWN

\* the grammar [scheme://]host[:port]: scheme http or https, a host of
\* letters, digits, '.' and '-', a port of digits
HostChars == Letters \cup Digits \cup {".", "-"}
HostPortOk(r) ==
    LET h == PrefixLen(r, HostChars)
        rest == SubSeq(r, h + 1, Len(r))
    IN  /\ h > 0
        /\ \/ rest = <<>>
           \/ /\ Head(rest) = ":" /\ Len(rest) > 1
              /\ PrefixLen(Tail(rest), Digits) = Len(rest) - 1
MatchesGrammar(t) ==
    LET sep == <<":", "/", "/">>
    IN  \/ HostPortOk(t)
        \/ \E sch \in {SchemeHttp, SchemeHttps} :
              /\ Len(t) > Len(sch) + 3
              /\ SubSeq(t, 1, Len(sch) + 3) = sch \o sep
              /\ HostPortOk(SubSeq(t, Len(sch) + 4, Len(t)))

\* C10: for a target outside the grammar Connect returns INVALID_ARGUMENT,
\* makes no transport call and leaves the channel disconnected.
C10_MalformedTargetRejected ==
    (Returned("Connect") /\ ~MatchesGrammar(target_)) =>
        /\ call.status.code = INVALID_ARGUMENT
        /\ call.n_connect = 0
        /\ ~Channel_IsConnected(Chan)

\* the parts of the target the channel was constructed with, when well-formed
CasesOfTarget == {tc \in TargetCases : TargetText(tc) = target_}
\* a Connect that found the channel disconnected has returned
TargetParsed == Returned("Connect") /\ ~call.was_connected

Framed == "op" \in DOMAIN frame /\ frame.op = "FrameRequest"

Unframed ==
    "op" \in DOMAIN frame /\ frame.op = "UnframeResponse" /\ ok(call.send_status)

\* C13: of a response with HTTP status 200, a body shorter than five bytes
\* ends the call with INTERNAL, "Invalid gRPC response format"; of a longer one
\* the caller is handed the body without its first five bytes, so that of the
\* framing of a payload p the caller is handed p, the empty one too
C13_UnframeInvertsFrame ==
    (Unframed /\ frame.response.status_code = 200) =>
        LET body == frame.response.body
        IN  /\ Len(body) < 5 =>
                  /\ call.status = Status(INTERNAL, "Invalid gRPC response format")
                  /\ response_data = call.response_before
            /\ Len(body) >= 5 =>
                  /\ Len(response_data) = Len(body) - 5
                  /\ \A i \in 1..Len(response_data) : response_data[i] = body[i + 5]
            /\ \A p \in FramedPayloads :
                  body = GrpcMessage(p) => response_data = p

C13_Witness ==
    /\ Unframed
    /\ frame.response.status_code = 200
    /\ frame.response.body = <<0, 0, 0, 0, 4, 112, 105, 110, 103>>
    /\ response_data = <<112, 105, 110, 103>>
    /\ ok(call.status)

\* the decimal text of the HTTP codes the peer answers with
HttpCodeText(code) ==
    CASE code = 0 -> "0" [] code = 204 -> "204" [] code = 404 -> "404"
      [] code = 503 -> "503" [] OTHER -> "200"

\* C14: when SendRequest succeeded and the HTTP status is not 200, 0 of a
\* response without ':status' included, ExecuteRequest returns INTERNAL with
\* the code in its message, whatever the body and the trailers are, and hands
\* the caller nothing
C14_HttpErrorInternal ==
    (Unframed /\ frame.response.status_code # 200) =>
        /\ call.status.code = INTERNAL
        /\ call.status.message = "HTTP error: " \o HttpCodeText(frame.response.status_code)
        /\ response_data = call.response_before

C14_Witness ==
    /\ Unframed
    /\ frame.response.status_code = 0
    /\ Len(frame.response.body) < 5
    /\ "grpc-status" \in DOMAIN frame.response.headers
    /\ call.status = Status(INTERNAL, "HTTP error: 0")

\* the failures of the network: of a connection attempt, and of the exchange
NetworkOutcomes == {"resolve_fail", "socket_fail", "connect_fail",
                    "ssl_handshake_fail", "send_fail"}
NetworkStatuses == {Status(INTERNAL, "Failed to send data"),
                    Status(INTERNAL, "Failed to receive data"),
                    Status(UNAVAILABLE, "Connection closed")}

\* C15: one ExecuteRequest calls the transport's Connect at most once and its
\* SendRequest at most once, and takes at most one new socket; a failure of
\* the network, while connecting or during the exchange, is what it returns,
\* as UNAVAILABLE or INTERNAL, with nothing tried again
C15_SingleAttempt ==
    call.op = "ExecuteRequest" =>
        /\ call.n_connect <= 1 /\ call.n_send <= 1
        /\ allocs <= call.allocs_before + 1
        /\ (call.done /\ call.outcome \in NetworkOutcomes) =>
              /\ call.status = call.connect_status
              /\ call.status.code \in {UNAVAILABLE, INTERNAL}
              /\ call.n_send = 0
        /\ (call.done /\ call.n_send = 1 /\ call.send_status \in NetworkStatuses) =>
              /\ call.status = call.send_status
              /\ call.status.code \in {UNAVAILABLE, INTERNAL}
              /\ allocs = call.allocs_before + call.n_connect

C15_Witness ==
    /\ Sent
    /\ call.n_connect = 1
    /\ call.send_status = Status(UNAVAILABLE, "Connection closed")
    /\ call.status = call.send_status
    /\ allocs = call.allocs_before + 1

\* C16: WaitForConnected returns true exactly when the channel is connected
\* and was so before the deadline; with the deadline reached first, one
\* already past when it is called included, it returns false; and when
\* connecting fails it returns false and raises nothing
C16_TrueOnlyBeforeDeadline ==
    Returned("WaitForConnected") =>
        /\ call.status.code # THROWN
        /\ call.result => Channel_IsConnected(Chan)
        /\ (~call.was_connected /\ call.after >= call.deadline) => ~call.result
        /\ (~call.was_connected /\ call.after < call.deadline
              /\ Channel_IsConnected(Chan)) => call.result
        /\ (call.was_connected /\ call.now < call.deadline) => call.result
        /\ ~ok(call.connect_status) => ~call.result

C18_DisconnectIdempotent ==
    [][ (pc = "idle" /\ call'.op = "Disconnect" /\ ~Channel_IsConnected(Chan)) =>
            /\ ~Channel_IsConnected(Chan)'
            /\ UNCHANGED <<connected_, connection_, state_, ng, link, allocs>> ]_vars

\* the headers of a request have been built
Built == "op" \in DOMAIN frame /\ frame.op = "BuildHeaders"
\* the values the name/value array gives the header name
ValuesOf(name) == {frame.nva[i][2] : i \in {j \in 1..Len(frame.nva) : frame.nva[j][1] = name}}
\* host and port ParseTarget takes from the targets it accepts, as
\* "<host>:<port>"
HostPortOfTarget ==
    CASE target_ = <<"h", ":", "8">> -> <<"h", ":", "8">>
      [] target_ = <<"h", "t", "t", "p", "s", ":", "/", "/", "h">> ->
             <<"h", ":", "4", "4", "3">>
      [] OTHER -> target_ \o <<":", "4", "4", "3">>

\* C19: the ':authority' submitted is the context's authority override when
\* there is one, and "<host>:<port>" of the connection otherwise, whatever
\* metadata the context carries and without a context
C19_AuthorityChosen ==
    Built =>
        ValuesOf(":authority") =
            {IF ~frame.context.null /\ frame.context.authority_ # <<>>
             THEN frame.context.authority_
             ELSE HostPortOfTarget}

\* C20: every request carries content-type application/grpc+proto, te
\* trailers, the user-agent "LiteGRPC/1.0", behind the context's prefix and a
\* space when there is one, and a header for each metadata entry of the
\* context, whatever keys the caller added
C20_FixedHeadersAndMetadata ==
    Built =>
        /\ "application/grpc+proto" \in ValuesOf("content-type")
        /\ "trailers" \in ValuesOf("te")
        /\ (IF ~frame.context.null /\ frame.context.user_agent_prefix_ # ""
            THEN frame.context.user_agent_prefix_ \o " LiteGRPC/1.0"
            ELSE "LiteGRPC/1.0") \in ValuesOf("user-agent")
        /\ \A k \in DOMAIN frame.context.metadata_ :
              frame.context.metadata_[k] \in ValuesOf(k)

\* the lower-case form of the metadata keys in use
ToLower(key) == IF key = "X-Trace" THEN "x-trace" ELSE key
\* the value of the last AddMetadata whose key is key in lower case
LastAdded(key) ==
    LET js == {j \in 1..Len(Added) : ToLower(Added[j][1]) = key}
    IN  Added[CHOOSE j \in js : \A l \in js : l <= j][2]

\* C21: the header sent for a metadata entry is named by the lower-case form
\* of the key given to AddMetadata, and keys that differ in case only are one
\* entry, which holds the value added last
C21_MetadataKeysLowerCased ==
    Built =>
        \A i \in 1..Len(Added) :
            /\ ValuesOf(ToLower(Added[i][1])) = {LastAdded(ToLower(Added[i][1]))}
            /\ Added[i][1] # ToLower(Added[i][1]) => ValuesOf(Added[i][1]) = {}

\* the timeout has been asked for
Queried == call.op = "GetTimeoutMs"

\* C23: IsExpired() is true exactly when a deadline is set and the clock has
\* passed it; GetTimeoutMs() is -1 exactly without a deadline, 0 when
\* IsExpired(), and otherwise the milliseconds up to the deadline, never
\* negative, however far ahead the deadline is
C23_TimeoutNonNegative ==
    Queried =>
        LET c == client_context
            ahead == c.deadline_ - call.now
        IN  /\ call.expired <=> (c.has_deadline_ /\ call.now > c.deadline_)
            /\ (call.result = -1) <=> ~c.has_deadline_
            /\ (c.has_deadline_ /\ call.expired) => call.result = 0
            /\ (c.has_deadline_ /\ ~call.expired) =>
                  /\ call.result >= 0
                  /\ (ahead >= 0 /\ ahead < 32768) => call.result = ahead * 65536

\* a call was made through the stub
Stubbed == call.op = "ExecuteRequest" /\ call.via_stub

\* C22: MakeCall on a stub without a channel returns INTERNAL, calls no
\* channel and leaves response_data alone; with a channel it calls
\* ExecuteRequest once, with the method, context and request bytes it was
\* given
C22_StubForwards ==
    Stubbed =>
        /\ ~stub_channel_ =>
              /\ call.done
              /\ call.status = Status(INTERNAL, "Channel not available")
              /\ call.n_execute = 0 /\ call.n_connect = 0 /\ call.n_send = 0
              /\ response_data = call.response_before
              /\ allocs = 0 /\ ~connected_ /\ ng = NewSession
        /\ stub_channel_ =>
              /\ call.n_execute = 1
              /\ call.received = call.given

C22_Witness ==
    /\ Stubbed /\ stub_channel_ /\ Returned("ExecuteRequest")
    /\ call.given.method = "/svc/other"
    /\ ~call.given.context.null
    /\ call.received = call.given
    /\ ok(call.status) /\ call.n_send = 1

\* C24: after SetBytes(b), whatever was set before, the size is the length of
\* b and ToString() is b, zero bytes and the empty sequence included
C24_BytesRoundTrip ==
    /\ call.op = "SetBytes" => nanopb.size = Len(call.bytes)
    /\ call.op = "ToString" =>
          /\ nanopb.size = Len(call.bytes)
          /\ call.text = call.bytes

C24_Witness ==
    /\ call.op = "ToString"
    /\ call.bytes = <<65, 0>>
    /\ call.text = <<65, 0>>
    /\ nanopb.capacity = 3

Stringified == "op" \in DOMAIN frame /\ frame.op = "ToString"

\* the names of the status codes 1..16, as the gRPC specification lists them
StatusCodeNames ==
    << "CANCELLED", "UNKNOWN", "INVALID_ARGUMENT", "DEADLINE_EXCEEDED", "NOT_FOUND",
       "ALREADY_EXISTS", "PERMISSION_DENIED", "RESOURCE_EXHAUSTED",
       "FAILED_PRECONDITION", "ABORTED", "OUT_OF_RANGE", "UNIMPLEMENTED", "INTERNAL",
       "UNAVAILABLE", "DATA_LOSS", "UNAUTHENTICATED" >>

\* C25: ok() is true exactly for code 0, which a default Status has; ToString()
\* of an OK Status is "OK"; for each of the codes 1..16 it is "Status(" and the
\* name of the code, then a comma and the quoted message only when the message
\* is not empty, then ")"
C25_StatusToString ==
    Stringified =>
      /\ frame.ok <=> frame.status.code = 0
      /\ frame.status.code = 0 => frame.text = "OK"
      /\ frame.status.code \in 1..16 =>
           frame.text = "Status(" \o StatusCodeNames[frame.status.code]
                          \o (IF frame.status.message = "" THEN ""
                              ELSE ", \"" \o frame.status.message \o "\"")
                          \o ")"

C25_Witness ==
    /\ Stringified
    /\ frame.status.code = 16
    /\ frame.text = "Status(UNAUTHENTICATED)"

\* the positions of the Set calls made for the key and the type asked for
SetsAsked ==
    {i \in 1..Len(call.sets) : call.sets[i][1] = call.type /\ call.sets[i][2] = call.key}

\* C26: Get<T>(k) returns true exactly when Set<T>(k, .) was called, and then
\* gives the value of the most recent such call; otherwise it returns false and
\* leaves the output as it was, whatever was set for k under another type
C26_ArgumentsPerType ==
    call.op = "GetArgument" =>
      /\ call.found <=> SetsAsked # {}
      /\ call.found =>
           \E i \in SetsAsked : /\ \A j \in SetsAsked : j <= i
                                /\ call.value = call.sets[i][3]
      /\ ~call.found => call.value = call.before

C26_Witness ==
    /\ call.op = "GetArgument"
    /\ call.type = "int"
    /\ ~call.found
    /\ \E i \in 1..Len(call.sets) :
         call.sets[i][1] = "pointer" /\ call.sets[i][2] = call.key

\* a getter answers with the latest of two Set calls of its key and type
C26_WitnessOverwrite ==
    /\ call.op = "GetArgument"
    /\ call.found
    /\ \E i, j \in SetsAsked : i < j /\ call.sets[i][3] # call.sets[j][3]

\* C27: while the client runs, once a heartbeat has failed, if from some point
\* on the server can be reached, the status comes back to CONNECTED
C27_Reconnects ==
    <>[](dev.server_up) =>
        []((dev.running_ /\ dev.hb_failed) =>
              <>(dev.status_ = "CONNECTED" \/ ~dev.running_))

\* C28: ProcessEvents returns INTERNAL "ProcessEvents exceeded maximum
\* iterations" only when the engine still wants to read or write after the
\* 100th iteration; when the engine has nothing left in an iteration up to the
\* 100th and no step failed, it returns OK
C28_ExceededOnlyWhenWanted ==
    (Sent /\ call.send_status = Status(INTERNAL, "ProcessEvents exceeded maximum iterations"))
        => call.wanted

\* the steps of the loop of ProcessEvents that fail
FailingSteps == {"SEND_FAILED", "ERROR", "CLOSED", "FATAL"}

\* C29: every blocking read returning, ProcessEvents ends after at most 100
\* iterations whatever the peer does, reads the socket at most once in each,
\* and stops at the first send or receive step that fails, with its Status
C29_LoopBounded ==
    /\ pc = "loop" =>
         /\ frame.iteration_count < max_iterations
         /\ frame.reads <= frame.iteration_count
         /\ frame.step \notin FailingSteps
    /\ (Sent /\ call.step # "none") =>
         /\ call.iterations \in 1..100
         /\ call.reads <= call.iterations
         /\ call.step = "SEND_FAILED" =>
              call.send_status = Status(INTERNAL, "Failed to send data")
         /\ call.step = "ERROR" =>
              call.send_status = Status(INTERNAL, "Failed to receive data")
         /\ call.step = "CLOSED" =>
              call.send_status = Status(UNAVAILABLE, "Connection closed")
         /\ call.step = "FATAL" =>
              call.send_status = Status(INTERNAL, "Failed to process received data")

C29_Witness ==
    /\ Sent
    /\ call.iterations = 100
    /\ call.reads = 100
    /\ call.step = "CLOSED"
    /\ call.send_status = Status(UNAVAILABLE, "Connection closed")

\* C30: whenever ExecuteRequest returns a Status that is not OK, a non-zero
\* grpc-status of the trailers included, *response_data is what it was before
\* the call
C30_ResponseOnlyOnOK ==
    (Returned("ExecuteRequest") /\ ~ok(call.status) /\ call.status.code # THROWN)
        => response_data = call.response_before

\* the names HTTP/2 reserves
PseudoHeaders == {":method", ":path", ":scheme", ":authority"}

\* C31: in the name/value array SendRequest submits, each of :method, :path,
\* :scheme and :authority stands exactly once, and every pseudo-header stands
\* before every ordinary header, whatever header map the channel passes in
C31_PseudoHeadersOnceAndFirst ==
    Built =>
        /\ \A p \in PseudoHeaders :
              Cardinality({i \in 1..Len(frame.nva) : frame.nva[i][1] = p}) = 1
        /\ \A i, j \in 1..Len(frame.nva) :
              (i < j /\ frame.nva[j][1] \in PseudoHeaders)
                  => frame.nva[i][1] \in PseudoHeaders

\* C32: the code of every Status ExecuteRequest returns is one of the
\* seventeen of StatusCode, 0..16, whatever grpc-status the server sends
C32_CodeIsDefined ==
    (Returned("ExecuteRequest") /\ call.status.code # THROWN)
        => call.status.code \in OK..UNAUTHENTICATED

\* C33: whenever ExecuteRequest returns OK, the payload it hands back is one
\* whole uncompressed message: the first byte of the response body is 0 and the
\* four bytes after it give, most significant first, the length of the payload
C33_OkIsOneWholeMessage ==
    (Unframed /\ ok(call.status)) =>
        /\ frame.response.body[1] = 0
        /\ SubSeq(frame.response.body, 2, 5) = htonl(Len(response_data))

\* C34: the map of responses in progress never holds more than one entry, and
\* holds none between operations: not after a SendRequest that returned, with
\* success or with failure, and not after Disconnect
C34_NoAccumulatorLeft ==
    /\ Cardinality(DOMAIN state_.responses) <= 1
    /\ pc = "idle" => state_.responses = EmptyMap

Collected == "op" \in DOMAIN frame /\ frame.op = "ReceiveOnStreams"

\* the frames that arrived on the stream of the second request, in order
RECURSIVE OnStream(_, _)
OnStream(fs, stream_id) ==
    IF fs = <<>> THEN <<>>
    ELSE (IF Head(fs).stream_id = stream_id THEN <<Head(fs)>> ELSE <<>>)
         \o OnStream(Tail(fs), stream_id)

RECURSIVE Concatenated(_)
Concatenated(fs) ==
    IF fs = <<>> THEN <<>>
    ELSE (IF Head(fs).type = "DATA" THEN Head(fs).data ELSE <<>>)
         \o Concatenated(Tail(fs))

\* the last value the frames fs give the field name, or none
LastValue(fs, name, none) ==
    LET is == {i \in 1..Len(fs) : "fields" \in DOMAIN fs[i] /\ name \in DOMAIN fs[i].fields}
    IN  IF is = {} THEN none
        ELSE fs[CHOOSE i \in is : \A l \in is : l <= i].fields[name]

\* C35: the response SendRequest returns for its stream is made of the frames
\* received on that stream since the request was submitted, and of nothing
\* else: status_code is the number of the last ':status', headers holds the
\* other fields with the last value of each, body is the data chunks in the
\* order of arrival; frames of another stream, late ones of a request given up
\* included, change nothing of it
C35_ResponseOfOwnStream ==
    Collected =>
        LET own == OnStream(frame.late, frame.stream_id)
            status == LastValue(own, ":status", <<>>)
        IN  /\ frame.stream_id = 3
            /\ ok(frame.st)
            /\ frame.response.status_code =
                 (CASE status = <<"2", "0", "0">> -> 200
                    [] status = <<"4", "0", "4">> -> 404
                    [] OTHER -> 0)
            /\ frame.response.body = Concatenated(own)
            /\ \A name \in {"grpc-status", "grpc-message"} :
                 IF LastValue(own, name, "none") = "none"
                 THEN name \notin DOMAIN frame.response.headers
                 ELSE /\ name \in DOMAIN frame.response.headers
                      /\ frame.response.headers[name] = LastValue(own, name, "none")
            /\ DOMAIN frame.response.headers \subseteq {"grpc-status", "grpc-message"}

C35_Witness ==
    /\ Collected
    /\ frame.early # <<>>
    /\ Len(frame.late) = 3
    /\ frame.late[1].stream_id = 3 /\ frame.late[1].type = "DATA"
    /\ frame.late[2].stream_id = 1 /\ frame.late[2].type = "DATA"
    /\ frame.late[3].stream_id = 3 /\ frame.late[3].type = "DATA"
    /\ frame.response.body = <<2, 1>>

\* C36: the transport never holds more than one socket, TLS session and
\* context, and engine session that it has not released: no step puts a new
\* handle in the place of one that is still there (the code releases a handle
\* nowhere but in the destructor of ConnectionState, so a handle that is there
\* is unreleased)
C36_NoHandleOverwritten ==
    [][ /\ (state_.socket_fd >= 0 /\ state_'.socket_fd >= 0)
             => state_'.socket_fd = state_.socket_fd
        /\ (state_.ssl_ctx # 0 /\ state_'.ssl_ctx # 0)
             => state_'.ssl_ctx = state_.ssl_ctx
        /\ (state_.ssl # 0 /\ state_'.ssl # 0) => state_'.ssl = state_.ssl
        /\ (state_.session # 0 /\ state_'.session # 0)
             => state_'.session = state_.session
      ]_vars

\* C37: between public operations the channel's flag connected_ equals the
\* transport's: both false at first, after a Connect that failed and after
\* Disconnect, both true after a Connect that succeeded; so IsConnected() of
\* the channel is its own flag
C37_FlagsAgree ==
    pc = "idle" =>
        /\ connected_ = state_.connected
        /\ Channel_IsConnected(Chan) = connected_
        /\ Returned("Connect") => (connected_ <=> ok(call.status))
        /\ Returned("Disconnect") => ~connected_

C37_Witness ==
    /\ Returned("Connect")
    /\ ~ok(call.status)
    /\ call.n_connect = 1
    /\ state_.socket_fd >= 0
    /\ ~connected_ /\ ~state_.connected

\* a NanopbString as SetString is to leave it: a buffer, the string in it and
\* its terminator inside it
WellFormedString(n) ==
    /\ ~n.null
    /\ n.size < n.capacity
    /\ n.wild = "none"
    /\ n.data[n.size + 1] = 0

\* C38: after any SetString calls the string has a buffer, size < capacity,
\* the terminator at data[size] inside the buffer, and ToString() returns the
\* last string set; the same holds of every element AddString added, and
\* ToVector() returns the strings added in order
C38_StringsWellFormed ==
    /\ StringsSet # <<>> =>
          /\ WellFormedString(nanopb_str.string)
          /\ NanopbString_ToString(nanopb_str.string) = StringsSet[Len(StringsSet)]
    /\ \A i \in 1..nanopb_str.array.count :
          WellFormedString(nanopb_str.array.strings[i])
    /\ NanopbStringArray_ToVector(nanopb_str.array) = StringsAdded

\* C39: stub_ and session_id_ are never written by one thread while another
\* thread reads or writes them: the heartbeat thread's Connect never meets a
\* Connect, SendHeartbeat or Disconnect of the user's thread
C39_NoConcurrentAccess == ~DataRace(dev) /\ ~dev.raced

\* C40: every log_init call returns, also while the logger is initialized
\* and from several threads: having cleaned up and installed the config, it
\* comes back with 0 and never waits for the logger's mutex for ever
C40_LogInitReturns ==
    \A t \in LogThreads :
        (g_log_ctx.at[t] = "init_lock") ~> (g_log_ctx.at[t] = "idle")

=============================================================================
